---- MODULE Spec2Model ----
(***************************************************************************)
(* Model of the DataDispatch newsletter platform: the batch mailer         *)
(* (mailer/email_sender.py), the subscriber store and its HTTP API         *)
(* (backend/database.py, backend/main.py) and the weekly send workflow     *)
(* (scripts/weekly_newsletter.py).                                         *)
(*                                                                         *)
(* Email addresses are natural numbers (address 1, address 2, ...).        *)
(* Error messages are sequences of one-character strings so that Python's  *)
(* substring test ("needle" in message) is computed, not assumed.          *)
(***************************************************************************)
EXTENDS Integers, Sequences, FiniteSets, TLC

(***************************************************************************)
(* Bounds of the model.                                                    *)
(***************************************************************************)
\* longest recipient list handed to send_newsletter
MaxRecipients == 120
\* recipient lists with duplicates repeat addresses with this period
DupPeriod == 7
\* _create_batches harness: longest list, largest batch size, alphabet size
MaxLen == 5
MaxBatch == 4
MaxAddr == 2

(***************************************************************************)
(* Program constants.                                                      *)
(***************************************************************************)
\* EmailSender.max_batch_size ("Gmail's BCC limit")
max_batch_size == 50

Min(a, b) == IF a < b THEN a ELSE b

\* slice that also takes the element at index hi
SliceInclusive(s, lo, hi) == SubSeq(s, lo + 1, Min(hi + 1, Len(s)))

\* Python slice s[lo:hi] for 0 <= lo <= hi (hi is clamped to len(s))
Slice(s, lo, hi) == SubSeq(s, lo + 1, Min(hi, Len(s)))

\* for i in range(i, len(recipients), batch_size): batches.append(recipients[i:i+batch_size])
RECURSIVE BatchLoop(_, _, _, _)
BatchLoop(rcpts, batch_size, i, acc) ==
    IF i >= Len(rcpts)
    THEN acc
    ELSE BatchLoop(rcpts, batch_size, i + batch_size,
                   Append(acc, Slice(rcpts, i, i + batch_size)))

\* EmailSender._create_batches
create_batches(rcpts, batch_size) == BatchLoop(rcpts, batch_size, 0, <<>>)

\* in-order concatenation of a list of lists
RECURSIVE Concat(_)
Concat(ss) == IF ss = <<>> THEN <<>> ELSE Head(ss) \o Concat(Tail(ss))

\* ceil(n / b) for b >= 1
CeilDiv(n, b) == (n + b - 1) \div b

\* all sequences over S of length at most n
SeqsUpTo(S, n) == UNION {[1..k -> S] : k \in 0..n}

VARIABLES
    \* harness of _create_batches
    cb_recipients, cb_size, cb_result, cb_done,
    \* process environment: SMTP_EMAIL and SMTP_PASSWORD, each unset, empty or set
    env,
    \* EmailSender object and the locals of send_newsletter
    sender, mpc, recipients, batches, i, total_sent, total_failed,
    failed_emails, batch_result, stats,
    \* what the transport saw
    attempts, raised, opened, open_sessions, sleeps, envelopes,
    \* the Store: the rows of the subscribers and send_logs tables
    subscribers, send_logs,
    \* the HTTP API: the request being answered, the ValueError message of the
    \* Store call (empty when none was raised), the response, requests so far
    request, db_error, response, nops,
    \* the weekly workflow: position in main(), its database session, its
    \* recipients and content, the caught exception, the exit status, and how
    \* often it read the Store and asked for content
    wpc, db_session, w_recipients, content, w_error, exit_status,
    store_reads, gen_calls,
    \* harness of get_send_statistics: its result, and whether it was called
    st_result, st_done,
    \* the content generator: its configuration (AI_PROVIDER, OPENAI_API_KEY),
    \* what the backends would answer, where generate_newsletter_content is,
    \* which backends it called and what it returned
    cg_env, cg_backend, cg_pc, cg_called, cg_result,
    \* ContentGenerator.use_openai
    cg_use_openai,
    \* the requests two API workers are handling: per worker the operation, the
    \* email, the row status its check read, and its reply
    reqs,
    \* the table of SimpleNewsletterDB and the result of its last call
    simple_rows, simple_result

cbVars == <<cb_recipients, cb_size, cb_result, cb_done>>
mailerVars == <<sender, mpc, recipients, batches, i, total_sent, total_failed,
                failed_emails, batch_result, stats>>
transportVars == <<attempts, raised, opened, open_sessions, sleeps, envelopes>>
storeVars == <<subscribers, send_logs>>
apiVars == <<request, db_error, response, nops>>
weeklyVars == <<wpc, db_session, w_recipients, content, w_error, exit_status,
                store_reads, gen_calls>>
statVars == <<st_result, st_done>>
contentVars == <<cg_env, cg_backend, cg_pc, cg_called, cg_result, cg_use_openai>>
raceVars == <<reqs>>
twinVars == <<simple_rows, simple_result>>
harnessVars == <<statVars, contentVars, raceVars, twinVars>>
vars == <<cbVars, env, mailerVars, transportVars, storeVars, apiVars, weeklyVars,
          harnessVars>>

EnvValues == {"unset", "empty", "set"}

\* a test that only notices an unset variable
FalsyUnsetOnly(v) == v = "unset"

\* Python truthiness of os.getenv(var): None and "" are falsy
Falsy(v) == v \in {"unset", "empty"}

NoStats == [total_recipients |-> 0, sent |-> 0, failed |-> 0, success_rate |-> 0,
            failed_emails |-> <<>>, batches_processed |-> 0]

NoBatchResult == [sent |-> 0, failed |-> 0, failed_emails |-> <<>>]

NoSendStatistics == [total_sent |-> 0, total_failures |-> 0, success_rate |-> 0]

NoContent == [subject |-> <<>>, html |-> <<>>, source |-> "none"]

\* an environment variable that is not set
NoVariable == [set |-> FALSE, value |-> <<>>]

\* what a backend answers: the kind of the answer, the keys, subject and html
\* of a JSON object, the lines of a text that is not JSON
Outcome(kind, keys, subject, html, lines) ==
    [kind |-> kind, keys |-> keys, subject |-> subject, html |-> html, lines |-> lines]

NoOutcome == Outcome("none", {}, <<>>, <<>>, <<>>)

\* the workers of the API
Workers == {1, 2}

\* a worker that handles no request
NoWork == [pc |-> "idle", id |-> 0, op |-> "none", email |-> 0, seen |-> "none",
           rival |-> 0, success |-> FALSE, message |-> <<>>, status_code |-> 0]

\* no worker of the API handles a request
RaceOff == reqs = [w \in Workers |-> NoWork]

NoSimpleResult == [op |-> "none", success |-> FALSE, message |-> <<>>]

\* SimpleNewsletterDB is not in use
TwinOff ==
    /\ simple_rows = <<>>
    /\ simple_result = NoSimpleResult

\* get_send_statistics and the content generator are not running
HarnessOff ==
    /\ st_result = NoSendStatistics
    /\ st_done = FALSE
    /\ cg_env = [AI_PROVIDER |-> NoVariable, OPENAI_API_KEY |-> "unset"]
    /\ cg_backend = NoOutcome
    /\ cg_pc = "off"
    /\ cg_called = <<>>
    /\ cg_result = NoContent
    /\ cg_use_openai = FALSE
    /\ RaceOff
    /\ TwinOff

NoRequest == [op |-> "none", email |-> 0]

NoResponse == [success |-> FALSE, message |-> <<>>, status_code |-> 0]

\* no HTTP request was handled yet
ApiOff ==
    /\ request = NoRequest
    /\ db_error = <<>>
    /\ response = NoResponse
    /\ nops = 0

\* the weekly workflow is not running
WeeklyOff ==
    /\ wpc = "off"
    /\ db_session = "none"
    /\ w_recipients = <<>>
    /\ content = "none"
    /\ w_error = "none"
    /\ exit_status = -1
    /\ store_reads = 0
    /\ gen_calls = 0

\* freshly created tables (init_db on a new database)
StoreEmpty ==
    /\ subscribers = <<>>
    /\ send_logs = <<>>

\* no EmailSender exists and send_newsletter is not running
MailerOff ==
    /\ sender = "none"
    /\ recipients = <<>>
    /\ batches = <<>>
    /\ i = 0
    /\ total_sent = 0
    /\ total_failed = 0
    /\ failed_emails = <<>>
    /\ batch_result = NoBatchResult
    /\ stats = NoStats
    /\ attempts = <<>>
    /\ raised = <<>>
    /\ opened = 0
    /\ open_sessions = 0
    /\ sleeps = 0
    /\ envelopes = <<>>

(***************************************************************************)
(* Harness of the pure function _create_batches: Init draws the inputs,    *)
(* the one action applies the function.                                    *)
(***************************************************************************)
InitBatches ==
    /\ cb_recipients \in SeqsUpTo(1..MaxAddr, MaxLen)
    /\ cb_size \in 1..MaxBatch
    /\ cb_result = <<>>
    /\ cb_done = FALSE
    /\ HarnessOff
    /\ env = [v \in {"SMTP_EMAIL", "SMTP_PASSWORD"} |-> "set"]
    /\ MailerOff
    /\ mpc = "off"
    /\ StoreEmpty
    /\ ApiOff
    /\ WeeklyOff

CreateBatches ==
    /\ ~cb_done
    /\ cb_result' = create_batches(cb_recipients, cb_size)
    /\ cb_done' = TRUE
    /\ UNCHANGED <<harnessVars, cb_recipients, cb_size, env, mailerVars, transportVars,
                   storeVars, apiVars, weeklyVars>>

NextBatches == CreateBatches

SpecBatches == InitBatches /\ [][NextBatches]_vars

\* C1: for every recipient list of length N and batch size B >= 1,
\* _create_batches returns exactly ceil(N/B) batches whose in-order
\* concatenation is the original list.
C1_BatchesPartition ==
    cb_done =>
        /\ Len(cb_result) = CeilDiv(Len(cb_recipients), cb_size)
        /\ Concat(cb_result) = cb_recipients

\* a 5-element list split by 2 into 3 batches, the last one smaller
C1_Witness ==
    /\ cb_done
    /\ Len(cb_recipients) = 5
    /\ cb_size = 2
    /\ Len(cb_result) = 3
    /\ Len(cb_result[3]) = 1

(***************************************************************************)
(* Batch mailer: EmailSender.__init__, send_newsletter and _send_batch.    *)
(* Every transport call (connect, STARTTLS, login, sendmail, quit) either  *)
(* returns or raises; _send_batch catches every Exception, so the handler  *)
(* of send_newsletter's own try (lines 72-75) has nothing left to catch.   *)
(* Time stamps (total_time_seconds) are not modelled.                      *)
(***************************************************************************)

\* recipient lists: n distinct addresses, or n addresses repeating with DupPeriod
RecipientList(n, dup) ==
    [j \in 1..n |-> IF dup THEN ((j - 1) % DupPeriod) + 1 ELSE j]

\* round(x, 2) of x = num/den*100, kept in hundredths of a percent; Python
\* rounds an exact half to the even neighbour
RatePct100(num, den) ==
    LET q == (num * 10000) \div den
        r == (num * 10000) % den IN
    IF 2 * r < den THEN q
    ELSE IF 2 * r > den THEN q + 1
    ELSE IF q % 2 = 0 THEN q ELSE q + 1

\* EmailSender.__init__
Construct ==
    /\ mpc = "new"
    /\ sender = "none"
    /\ IF Falsy(env.SMTP_EMAIL) \/ Falsy(env.SMTP_PASSWORD)
       THEN /\ mpc' = "config_error"
            /\ sender' = "none"
       ELSE /\ mpc' = "idle"
            /\ sender' = "built"
    /\ UNCHANGED <<harnessVars, storeVars, apiVars, weeklyVars, cbVars, env, recipients, batches, i, total_sent, total_failed,
                   failed_emails, batch_result, stats, transportVars>>

\* send_newsletter, lines 46-54: reset the totals and split into batches
Enter(rcpts) ==
    /\ mpc = "idle"
    /\ sender = "built"
    /\ recipients' = rcpts
    /\ total_sent' = 0
    /\ total_failed' = 0
    /\ failed_emails' = <<>>
    /\ batches' = create_batches(rcpts, max_batch_size)
    /\ i' = 0
    /\ mpc' = "loop"
    /\ UNCHANGED <<harnessVars, cbVars, env, sender, batch_result, stats, transportVars>>

\* a caller (send_to_all.py, the tests) hands any list to send_newsletter
SendNewsletter ==
    \E n \in 0..MaxRecipients, dup \in BOOLEAN :
        /\ wpc = "off"
        /\ (dup => n > DupPeriod)
        /\ Enter(RecipientList(n, dup))
        /\ UNCHANGED <<harnessVars, storeVars, apiVars, weeklyVars>>

\* for i, batch in enumerate(batches): call _send_batch(batch, ...)
BatchBegin ==
    /\ mpc = "loop"
    /\ i < Len(batches)
    /\ attempts' = Append(attempts, i + 1)
    /\ mpc' = "connect"
    /\ UNCHANGED <<harnessVars, storeVars, apiVars, weeklyVars, cbVars, env, sender, recipients, batches, i, total_sent,
                   total_failed, failed_emails, batch_result, stats, raised,
                   opened, open_sessions, sleeps, envelopes>>

\* failure result that forgets to count the batch
BatchFailedUncounted(batch) == [sent |-> 0, failed |-> 0, failed_emails |-> batch]

\* failure result that blames only the first address of the batch
BatchFailedFirstOnly(batch) ==
    [sent |-> Len(batch) - 1, failed |-> 1, failed_emails |-> <<batch[1]>>]

\* _send_batch, except branch: the whole batch is reported as failed
BatchFailed(batch) == [sent |-> 0, failed |-> Len(batch), failed_emails |-> batch]

\* _send_batch, line 150
BatchSent(batch) == [sent |-> Len(batch), failed |-> 0, failed_emails |-> <<>>]

\* a transport call on an open session raises: the handler returns the failure
\* result without closing the session; the session is already closed when the
\* server dropped the connection, and is left open otherwise
RaiseInSession ==
    /\ batch_result' = BatchFailed(batches[i + 1])
    /\ raised' = Append(raised, i + 1)
    /\ mpc' = "collect"
    /\ \E dropped \in BOOLEAN :
           open_sessions' = IF dropped THEN open_sessions - 1 ELSE open_sessions

\* server = smtplib.SMTP(self.smtp_server, self.smtp_port)
Connect ==
    /\ mpc = "connect"
    /\ \/ /\ opened' = opened + 1
          /\ open_sessions' = open_sessions + 1
          /\ mpc' = "starttls"
          /\ UNCHANGED <<batch_result, raised>>
       \/ /\ batch_result' = BatchFailed(batches[i + 1])
          /\ raised' = Append(raised, i + 1)
          /\ mpc' = "collect"
          /\ UNCHANGED <<opened, open_sessions>>
    /\ UNCHANGED <<harnessVars, storeVars, apiVars, weeklyVars, cbVars, env, sender, recipients, batches, i, total_sent,
                   total_failed, failed_emails, stats, attempts, sleeps, envelopes>>

\* server.starttls()
StartTLS ==
    /\ mpc = "starttls"
    /\ \/ /\ mpc' = "login"
          /\ UNCHANGED <<batch_result, raised, open_sessions>>
       \/ RaiseInSession
    /\ UNCHANGED <<harnessVars, storeVars, apiVars, weeklyVars, cbVars, env, sender, recipients, batches, i, total_sent,
                   total_failed, failed_emails, stats, attempts, opened, sleeps,
                   envelopes>>

\* server.login(self.smtp_email, self.smtp_password)
Login ==
    /\ mpc = "login"
    /\ \/ /\ mpc' = "sendmail"
          /\ UNCHANGED <<batch_result, raised, open_sessions>>
       \/ RaiseInSession
    /\ UNCHANGED <<harnessVars, storeVars, apiVars, weeklyVars, cbVars, env, sender, recipients, batches, i, total_sent,
                   total_failed, failed_emails, stats, attempts, opened, sleeps,
                   envelopes>>

\* all_recipients = [self.smtp_email] + recipients
EnvelopeSize(batch) == 1 + Len(batch)

\* a sendmail that records every message in the send log
SendmailLogged ==
    /\ mpc = "sendmail"
    /\ envelopes' = Append(envelopes, EnvelopeSize(batches[i + 1]))
    /\ send_logs' = Append(send_logs, [id |-> Len(send_logs) + 1,
                                       sent_count |-> Len(batches[i + 1]),
                                       failures |-> 0,
                                       error_details |-> [kind |-> "none", emails |-> <<>>,
                                                          message |-> "none"],
                                       newsletter_subject |-> "batch"])
    /\ \/ /\ mpc' = "quit"
          /\ UNCHANGED <<batch_result, raised, open_sessions>>
       \/ RaiseInSession
    /\ UNCHANGED <<harnessVars, subscribers, apiVars, weeklyVars, cbVars, env, sender, recipients, batches, i, total_sent,
                   total_failed, failed_emails, stats, attempts, opened, sleeps>>

\* server.sendmail(self.smtp_email, all_recipients, text)
Sendmail ==
    /\ mpc = "sendmail"
    /\ envelopes' = Append(envelopes, EnvelopeSize(batches[i + 1]))
    /\ \/ /\ mpc' = "quit"
          /\ UNCHANGED <<batch_result, raised, open_sessions>>
       \/ RaiseInSession
    /\ UNCHANGED <<harnessVars, storeVars, apiVars, weeklyVars, cbVars, env, sender, recipients, batches, i, total_sent,
                   total_failed, failed_emails, stats, attempts, opened, sleeps>>

\* server.quit(), then return the success result
Quit ==
    /\ mpc = "quit"
    /\ \/ /\ open_sessions' = open_sessions - 1
          /\ batch_result' = BatchSent(batches[i + 1])
          /\ mpc' = "collect"
          /\ UNCHANGED raised
       \/ RaiseInSession
    /\ UNCHANGED <<harnessVars, storeVars, apiVars, weeklyVars, cbVars, env, sender, recipients, batches, i, total_sent,
                   total_failed, failed_emails, stats, attempts, opened, sleeps,
                   envelopes>>

\* a Collect that waits only after a batch that was sent
CollectSleepOnSuccess ==
    /\ mpc = "collect"
    /\ total_sent' = total_sent + batch_result.sent
    /\ total_failed' = total_failed + batch_result.failed
    /\ failed_emails' = failed_emails \o batch_result.failed_emails
    /\ IF i < Len(batches) - 1 /\ batch_result.failed = 0
       THEN /\ mpc' = "sleep"
            /\ i' = i
       ELSE /\ mpc' = "loop"
            /\ i' = i + 1
    /\ UNCHANGED <<harnessVars, storeVars, apiVars, weeklyVars, cbVars, env, sender, recipients, batches, batch_result, stats,
                   transportVars>>

\* a Collect that sends a failed batch again instead of moving on
CollectRetry ==
    /\ mpc = "collect"
    /\ total_sent' = total_sent + batch_result.sent
    /\ total_failed' = total_failed + batch_result.failed
    /\ failed_emails' = failed_emails \o batch_result.failed_emails
    /\ IF batch_result.failed > 0
       THEN /\ mpc' = "loop"
            /\ i' = i
       ELSE IF i < Len(batches) - 1
            THEN /\ mpc' = "sleep"
                 /\ i' = i
            ELSE /\ mpc' = "loop"
                 /\ i' = i + 1
    /\ UNCHANGED <<harnessVars, storeVars, apiVars, weeklyVars, cbVars, env, sender, recipients, batches, batch_result, stats,
                   transportVars>>

\* send_newsletter, lines 63-68: add the batch result to the totals
Collect ==
    /\ mpc = "collect"
    /\ total_sent' = total_sent + batch_result.sent
    /\ total_failed' = total_failed + batch_result.failed
    /\ failed_emails' = failed_emails \o batch_result.failed_emails
    /\ IF i < Len(batches) - 1
       THEN /\ mpc' = "sleep"
            /\ i' = i
       ELSE /\ mpc' = "loop"
            /\ i' = i + 1
    /\ UNCHANGED <<harnessVars, storeVars, apiVars, weeklyVars, cbVars, env, sender, recipients, batches, batch_result, stats,
                   transportVars>>

\* time.sleep(2) between batches, then the next iteration
Sleep ==
    /\ mpc = "sleep"
    /\ sleeps' = sleeps + 1
    /\ i' = i + 1
    /\ mpc' = "loop"
    /\ UNCHANGED <<harnessVars, storeVars, apiVars, weeklyVars, cbVars, env, sender, recipients, batches, total_sent,
                   total_failed, failed_emails, batch_result, stats,
                   attempts, raised, opened, open_sessions, envelopes>>

\* a success rate that reports an empty run as fully successful
SuccessRateVacuous(sent, rcpts) ==
    IF rcpts # <<>> THEN RatePct100(sent, Len(rcpts)) ELSE 10000

\* success_rate = (total_sent / len(recipients)) * 100 if recipients else 0
SuccessRate(sent, rcpts) ==
    IF rcpts # <<>> THEN RatePct100(sent, Len(rcpts)) ELSE 0

\* send_newsletter, lines 77-99: build the stats and return
Return ==
    /\ mpc = "loop"
    /\ i >= Len(batches)
    /\ stats' = [total_recipients |-> Len(recipients),
                 sent |-> total_sent,
                 failed |-> total_failed,
                 success_rate |-> SuccessRate(total_sent, recipients),
                 failed_emails |-> failed_emails,
                 batches_processed |-> Len(batches)]
    /\ mpc' = "returned"
    /\ UNCHANGED <<harnessVars, storeVars, apiVars, weeklyVars, cbVars, env, sender, recipients, batches, i, total_sent,
                   total_failed, failed_emails, batch_result, transportVars>>

InitMailer ==
    /\ cb_recipients = <<>>
    /\ cb_size = 1
    /\ cb_result = <<>>
    /\ cb_done = FALSE
    /\ HarnessOff
    /\ env \in [{"SMTP_EMAIL", "SMTP_PASSWORD"} -> EnvValues]
    /\ MailerOff
    /\ mpc = "new"
    /\ StoreEmpty
    /\ ApiOff
    /\ WeeklyOff

NextMailer ==
    \/ Construct
    \/ SendNewsletter
    \/ BatchBegin
    \/ Connect
    \/ StartTLS
    \/ Login
    \/ Sendmail
    \/ Quit
    \/ Collect
    \/ Sleep
    \/ Return

SpecMailer == InitMailer /\ [][NextMailer]_vars

\* weak fairness of the mailer's steps: the code is sequential and every
\* transport call returns or raises, so an enabled step is eventually taken
FairSpecMailer == SpecMailer /\ WF_vars(NextMailer)

\* the batches whose index is in the list ks, concatenated in list order
RECURSIVE ConcatAt(_, _)
ConcatAt(bs, ks) ==
    IF ks = <<>> THEN <<>> ELSE bs[Head(ks)] \o ConcatAt(bs, Tail(ks))

\* the sum of the sizes of the batches whose index is not in the set F
RECURSIVE SizeOutside(_, _)
SizeOutside(bs, F) ==
    IF bs = <<>> THEN 0
    ELSE (IF Len(bs) \in F THEN 0 ELSE Len(bs[Len(bs)]))
         + SizeOutside(SubSeq(bs, 1, Len(bs) - 1), F)

Range(f) == {f[x] : x \in DOMAIN f}

\* C2: after send_newsletter returns, sent + failed = total_recipients =
\* len(recipients) and len(failed_emails) = failed, whichever batches failed.
C2_CountsAddUp ==
    mpc = "returned" =>
        /\ stats.sent + stats.failed = stats.total_recipients
        /\ stats.total_recipients = Len(recipients)
        /\ Len(stats.failed_emails) = stats.failed

\* three batches, some sent and some failed
C2_Witness ==
    /\ mpc = "returned"
    /\ Len(batches) = 3
    /\ stats.sent > 0
    /\ stats.failed > 0

\* C3: a batch is all-or-nothing: a batch one of whose transport calls raised
\* reports sent 0, failed = its size and all its addresses, any other batch
\* reports sent = its size and no address; so the run's failed_emails is the
\* in-order concatenation of the batches that raised and sent is the total
\* size of the others (120 recipients, batch 2 raises: sent 70, failed 50,
\* failed_emails = addresses 51..100).
C3_AllOrNothing ==
    /\ mpc = "collect" =>
           batch_result = IF i + 1 \in Range(raised)
                          THEN [sent |-> 0, failed |-> Len(batches[i + 1]),
                                failed_emails |-> batches[i + 1]]
                          ELSE [sent |-> Len(batches[i + 1]), failed |-> 0,
                                failed_emails |-> <<>>]
    /\ mpc = "returned" =>
           /\ stats.failed_emails = ConcatAt(batches, raised)
           /\ stats.sent = SizeOutside(batches, Range(raised))
           /\ (Len(recipients) = 120 /\ raised = <<2>>) =>
                  /\ stats.sent = 70
                  /\ stats.failed = 50
                  /\ stats.failed_emails = SubSeq(recipients, 51, 100)

\* the scenario of the spec: 120 recipients, only batch 2 raises
C3_Witness ==
    /\ mpc = "returned"
    /\ Len(recipients) = 120
    /\ raised = <<2>>
    /\ attempts = <<1, 2, 3>>

\* C4: a transport failure never aborts the run: every batch is attempted
\* exactly once, in list order, and send_newsletter then returns stats with
\* batches_processed = ceil(N/50).
C4_EveryBatchOnce ==
    /\ [](/\ attempts = [k \in 1..Len(attempts) |-> k]
          /\ mpc = "returned" =>
                 /\ Len(attempts) = CeilDiv(Len(recipients), max_batch_size)
                 /\ stats.batches_processed = CeilDiv(Len(recipients), max_batch_size))
    /\ (mpc = "loop") ~> (mpc = "returned")

\* batch 1 raised and batches 2 and 3 were still attempted
C4_Witness ==
    /\ mpc = "returned"
    /\ raised # <<>>
    /\ Head(raised) = 1
    /\ attempts = <<1, 2, 3>>

\* C5: send_newsletter with an empty list returns success_rate 0 with
\* sent = failed = total_recipients = batches_processed = 0, without opening
\* a transport session and without waiting.
C5_EmptyList ==
    (mpc = "returned" /\ recipients = <<>>) =>
        /\ stats.success_rate = 0
        /\ stats.sent = 0
        /\ stats.failed = 0
        /\ stats.total_recipients = 0
        /\ stats.batches_processed = 0
        /\ attempts = <<>>
        /\ opened = 0
        /\ sleeps = 0

C5_Witness ==
    /\ mpc = "returned"
    /\ recipients = <<>>
    /\ stats.success_rate = 0

(***************************************************************************)
(* Subscriber Store (backend/database.py, SubscriberDB) and the HTTP API   *)
(* in front of it (backend/main.py).  A row is [id, email, status]; the    *)
(* created_at / updated_at time stamps are not modelled.  A handler is an  *)
(* async function without an await, so one request is handled at a time.   *)
(* Failures of the database itself (commit errors) are not modelled.       *)
(***************************************************************************)
\* requests handled in one behaviour, and the addresses they use
MaxOps == 5
MaxEmails == 3

Emails == 1..MaxEmails

\* Python's substring test: needle in text
Contains(text, needle) ==
    \E k \in 0..(Len(text) - Len(needle)) :
        SubSeq(text, k + 1, k + Len(needle)) = needle

\* a different rejection text: "Email already exists"
MsgAlreadyExists ==
    <<"E", "m", "a", "i", "l", " ", "a", "l", "r", "e", "a", "d", "y", " ",
      "e", "x", "i", "s", "t", "s">>

\* database.py line 94: ValueError("Email already subscribed")
MsgAlreadySubscribed ==
    <<"E", "m", "a", "i", "l", " ", "a", "l", "r", "e", "a", "d", "y", " ",
      "s", "u", "b", "s", "c", "r", "i", "b", "e", "d">>

\* a different rejection text: "Unknown email"
MsgNoSuchEmail ==
    <<"U", "n", "k", "n", "o", "w", "n", " ", "e", "m", "a", "i", "l">>

\* database.py line 110: ValueError("Email not found in subscriber list")
MsgNotFound ==
    <<"E", "m", "a", "i", "l", " ", "n", "o", "t", " ", "f", "o", "u", "n",
      "d", " ", "i", "n", " ", "s", "u", "b", "s", "c", "r", "i", "b", "e",
      "r", " ", "l", "i", "s", "t">>

\* database.py line 113: ValueError("Email already unsubscribed")
MsgAlreadyUnsubscribed ==
    <<"E", "m", "a", "i", "l", " ", "a", "l", "r", "e", "a", "d", "y", " ",
      "u", "n", "s", "u", "b", "s", "c", "r", "i", "b", "e", "d">>

\* main.py line 102: "already subscribed" in error_message
NeedleAlreadySubscribed ==
    <<"a", "l", "r", "e", "a", "d", "y", " ", "s", "u", "b", "s", "c", "r",
      "i", "b", "e", "d">>

\* main.py line 135: "not found" in error_message
NeedleNotFound ==
    <<"n", "o", "t", " ", "f", "o", "u", "n", "d">>

\* main.py line 140: "already unsubscribed" in error_message
NeedleAlreadyUnsubscribed ==
    <<"a", "l", "r", "e", "a", "d", "y", " ", "u", "n", "s", "u", "b", "s",
      "c", "r", "i", "b", "e", "d">>

\* main.py line 93
ApiSubscribed ==
    <<"S", "u", "c", "c", "e", "s", "s", "f", "u", "l", "l", "y", " ", "s",
      "u", "b", "s", "c", "r", "i", "b", "e", "d", " ", "t", "o", " ", "n",
      "e", "w", "s", "l", "e", "t", "t", "e", "r", "!">>

\* main.py line 105
ApiAlreadySubscribed ==
    <<"T", "h", "i", "s", " ", "e", "m", "a", "i", "l", " ", "i", "s", " ",
      "a", "l", "r", "e", "a", "d", "y", " ", "s", "u", "b", "s", "c", "r",
      "i", "b", "e", "d", " ", "t", "o", " ", "o", "u", "r", " ", "n", "e",
      "w", "s", "l", "e", "t", "t", "e", "r", ".">>

\* main.py line 127
ApiUnsubscribed ==
    <<"S", "u", "c", "c", "e", "s", "s", "f", "u", "l", "l", "y", " ", "u",
      "n", "s", "u", "b", "s", "c", "r", "i", "b", "e", "d", " ", "f", "r",
      "o", "m", " ", "n", "e", "w", "s", "l", "e", "t", "t", "e", "r", ".",
      " ", "W", "e", "'", "r", "e", " ", "s", "o", "r", "r", "y", " ", "t",
      "o", " ", "s", "e", "e", " ", "y", "o", "u", " ", "g", "o", "!">>

\* main.py line 138
ApiNotInList ==
    <<"T", "h", "i", "s", " ", "e", "m", "a", "i", "l", " ", "a", "d", "d",
      "r", "e", "s", "s", " ", "i", "s", " ", "n", "o", "t", " ", "i", "n",
      " ", "o", "u", "r", " ", "s", "u", "b", "s", "c", "r", "i", "b", "e",
      "r", " ", "l", "i", "s", "t", ".">>

\* main.py line 143
ApiAlreadyUnsubscribed ==
    <<"T", "h", "i", "s", " ", "e", "m", "a", "i", "l", " ", "i", "s", " ",
      "a", "l", "r", "e", "a", "d", "y", " ", "u", "n", "s", "u", "b", "s",
      "c", "r", "i", "b", "e", "d", " ", "f", "r", "o", "m", " ", "o", "u",
      "r", " ", "n", "e", "w", "s", "l", "e", "t", "t", "e", "r", ".">>

\* SubscriberDB.get_subscriber_by_email: position of the first row with this
\* email, 0 for None
get_subscriber_by_email(subs, email) ==
    IF \E k \in 1..Len(subs) : subs[k].email = email
    THEN CHOOSE k \in 1..Len(subs) :
             /\ subs[k].email = email
             /\ \A j \in 1..(k - 1) : subs[j].email # email
    ELSE 0

\* the primary key of the next inserted row
NextId(subs) ==
    IF subs = <<>> THEN 1
    ELSE 1 + CHOOSE m \in {subs[k].id : k \in 1..Len(subs)} :
                 \A k \in 1..Len(subs) : subs[k].id <= m

\* a create_subscriber that adds a row whenever the email is not active
create_subscriberNewRow(subs, email) ==
    LET existing == get_subscriber_by_email(subs, email) IN
    IF existing # 0 /\ subs[existing].status # "unsubscribed"
    THEN [subscribers |-> subs, error |-> MsgAlreadySubscribed, row |-> 0]
    ELSE [subscribers |->
              Append(subs, [id |-> NextId(subs), email |-> email, status |-> "active"]),
          error |-> <<>>, row |-> Len(subs) + 1]

\* SubscriberDB.create_subscriber: the table afterwards, the message of the
\* ValueError (empty when none is raised) and the position of the returned row
create_subscriber(subs, email) ==
    LET existing == get_subscriber_by_email(subs, email) IN
    IF existing # 0
    THEN IF subs[existing].status = "unsubscribed"
         THEN [subscribers |-> [subs EXCEPT ![existing].status = "active"],
               error |-> <<>>, row |-> existing]
         ELSE [subscribers |-> subs, error |-> MsgAlreadySubscribed, row |-> 0]
    ELSE [subscribers |->
              Append(subs, [id |-> NextId(subs), email |-> email, status |-> "active"]),
          error |-> <<>>, row |-> Len(subs) + 1]

\* the list without its k-th element
Without(subs, k) == SubSeq(subs, 1, k - 1) \o SubSeq(subs, k + 1, Len(subs))

\* an unsubscribe_subscriber that deletes the row instead of flipping its status
unsubscribe_subscriberDelete(subs, email) ==
    LET subscriber == get_subscriber_by_email(subs, email) IN
    IF subscriber = 0
    THEN [subscribers |-> subs, error |-> MsgNotFound]
    ELSE IF subs[subscriber].status = "unsubscribed"
         THEN [subscribers |-> subs, error |-> MsgAlreadyUnsubscribed]
         ELSE [subscribers |-> Without(subs, subscriber), error |-> <<>>]

\* an unsubscribe_subscriber that accepts a repeated unsubscribe
unsubscribe_subscriberIdempotent(subs, email) ==
    LET subscriber == get_subscriber_by_email(subs, email) IN
    IF subscriber = 0
    THEN [subscribers |-> subs, error |-> MsgNotFound]
    ELSE [subscribers |-> [subs EXCEPT ![subscriber].status = "unsubscribed"],
          error |-> <<>>]

\* SubscriberDB.unsubscribe_subscriber
unsubscribe_subscriber(subs, email) ==
    LET subscriber == get_subscriber_by_email(subs, email) IN
    IF subscriber = 0
    THEN [subscribers |-> subs, error |-> MsgNotFound]
    ELSE IF subs[subscriber].status = "unsubscribed"
         THEN [subscribers |-> subs, error |-> MsgAlreadyUnsubscribed]
         ELSE [subscribers |-> [subs EXCEPT ![subscriber].status = "unsubscribed"],
               error |-> <<>>]

\* SubscriberDB.get_active_subscribers, as done by SELECT ... WHERE status = 'active'
get_active_subscribers(subs) == SelectSeq(subs, LAMBDA r : r.status = "active")

\* POST /subscribe
Subscribe(email) ==
    /\ nops < MaxOps
    /\ LET r == create_subscriber(subscribers, email) IN
       /\ subscribers' = r.subscribers
       /\ db_error' = r.error
       /\ response' =
              IF r.error = <<>>
              THEN [success |-> TRUE, message |-> ApiSubscribed, status_code |-> 200]
              ELSE IF Contains(r.error, NeedleAlreadySubscribed)
                   THEN [success |-> FALSE, message |-> ApiAlreadySubscribed,
                         status_code |-> 200]
                   ELSE [success |-> FALSE, message |-> r.error, status_code |-> 200]
    /\ request' = [op |-> "subscribe", email |-> email]
    /\ nops' = nops + 1
    /\ UNCHANGED <<harnessVars, cbVars, env, mailerVars, transportVars, send_logs, weeklyVars>>

\* POST /unsubscribe
Unsubscribe(email) ==
    /\ nops < MaxOps
    /\ LET r == unsubscribe_subscriber(subscribers, email) IN
       /\ subscribers' = r.subscribers
       /\ db_error' = r.error
       /\ response' =
              IF r.error = <<>>
              THEN [success |-> TRUE, message |-> ApiUnsubscribed, status_code |-> 200]
              ELSE IF Contains(r.error, NeedleNotFound)
                   THEN [success |-> FALSE, message |-> ApiNotInList,
                         status_code |-> 200]
                   ELSE IF Contains(r.error, NeedleAlreadyUnsubscribed)
                        THEN [success |-> FALSE, message |-> ApiAlreadyUnsubscribed,
                              status_code |-> 200]
                        ELSE [success |-> FALSE, message |-> r.error,
                              status_code |-> 200]
    /\ request' = [op |-> "unsubscribe", email |-> email]
    /\ nops' = nops + 1
    /\ UNCHANGED <<harnessVars, cbVars, env, mailerVars, transportVars, send_logs, weeklyVars>>

InitStore ==
    /\ cb_recipients = <<>>
    /\ cb_size = 1
    /\ cb_result = <<>>
    /\ cb_done = FALSE
    /\ HarnessOff
    /\ env = [v \in {"SMTP_EMAIL", "SMTP_PASSWORD"} |-> "set"]
    /\ MailerOff
    /\ mpc = "off"
    /\ StoreEmpty
    /\ ApiOff
    /\ WeeklyOff

NextStore ==
    \/ \E email \in Emails : Subscribe(email)
    \/ \E email \in Emails : Unsubscribe(email)

SpecStore == InitStore /\ [][NextStore]_vars

\* the status of the row of an email, "none" when it has no row
StatusOf(subs, email) ==
    IF \E k \in 1..Len(subs) : subs[k].email = email
    THEN (CHOOSE r \in Range(subs) : r.email = email).status
    ELSE "none"

\* this step handles a subscribe / an unsubscribe request
SubscribeStep == nops' = nops + 1 /\ request'.op = "subscribe"
UnsubscribeStep == nops' = nops + 1 /\ request'.op = "unsubscribe"

\* C7: subscribing an email whose row is active raises an error whose message
\* contains "already subscribed", leaves the Store unchanged and is answered
\* with success = false.
C7_DuplicateSubscribeRejected ==
    [][(SubscribeStep /\ StatusOf(subscribers, request'.email) = "active") =>
           /\ Contains(db_error', NeedleAlreadySubscribed)
           /\ subscribers' = subscribers
           /\ response'.success = FALSE]_vars

\* a subscribe of an active email was just rejected
C7_Witness ==
    /\ request.op = "subscribe"
    /\ StatusOf(subscribers, request.email) = "active"
    /\ db_error # <<>>
    /\ ~response.success
    /\ Len(subscribers) >= 2

\* C8: subscribing an unsubscribed email succeeds by flipping that row to
\* active (same row count, same id, other rows untouched); subscribing an
\* email without a row inserts exactly one new active row.
C8_ReactivateOrInsert ==
    [][SubscribeStep =>
           LET email == request'.email
               n == Len(subscribers) IN
           /\ StatusOf(subscribers, email) = "unsubscribed" =>
                  /\ response'.success
                  /\ Len(subscribers') = n
                  /\ \A k \in 1..n :
                         subscribers'[k] =
                             IF subscribers[k].email = email
                             THEN [subscribers[k] EXCEPT !.status = "active"]
                             ELSE subscribers[k]
           /\ StatusOf(subscribers, email) = "none" =>
                  /\ response'.success
                  /\ Len(subscribers') = n + 1
                  /\ SubSeq(subscribers', 1, n) = subscribers
                  /\ subscribers'[n + 1].email = email
                  /\ subscribers'[n + 1].status = "active"
                  /\ \A k \in 1..n : subscribers[k].id # subscribers'[n + 1].id]_vars

\* an unsubscribed email was just reactivated: the subscribe succeeded and its
\* row is not the last (newest) one
C8_Witness ==
    /\ request.op = "subscribe"
    /\ response.success
    /\ Len(subscribers) >= 2
    /\ subscribers[Len(subscribers)].email # request.email
    /\ StatusOf(subscribers, request.email) = "active"

\* C9: unsubscribing an email without a row fails with "not found",
\* unsubscribing an unsubscribed email fails with "already unsubscribed", both
\* without changing the Store; unsubscribing an active email succeeds (so the
\* second of two consecutive unsubscribes fails).
C9_UnsubscribeErrors ==
    [][UnsubscribeStep =>
           LET email == request'.email IN
           /\ StatusOf(subscribers, email) = "none" =>
                  /\ Contains(db_error', NeedleNotFound)
                  /\ ~response'.success
                  /\ subscribers' = subscribers
           /\ StatusOf(subscribers, email) = "unsubscribed" =>
                  /\ Contains(db_error', NeedleAlreadyUnsubscribed)
                  /\ ~response'.success
                  /\ subscribers' = subscribers
           /\ StatusOf(subscribers, email) = "active" =>
                  /\ response'.success
                  /\ StatusOf(subscribers', email) = "unsubscribed"]_vars

\* a second unsubscribe was just rejected
C9_Witness ==
    /\ request.op = "unsubscribe"
    /\ StatusOf(subscribers, request.email) = "unsubscribed"
    /\ Contains(db_error, NeedleAlreadyUnsubscribed)
    /\ ~response.success

MaxSubscribers == 101
\* initial tables have every per-th row unsubscribed, for per up to this
MaxUnsubPeriod == 2

\* a table of n rows where every per-th row is unsubscribed
InitialTable(n, per) ==
    [k \in 1..n |-> [id |-> k, email |-> k,
                     status |-> IF k % per = 0 THEN "unsubscribed" ELSE "active"]]

\* [sub.email for sub in subscribers]
EmailsOf(rows) == [k \in 1..Len(rows) |-> rows[k].email]

NoDetails == [kind |-> "none", emails |-> <<>>, message |-> "none"]

\* a create_send_log that keeps one row and overwrites it
create_send_logOverwrite(logs, sent_count, failures, error_details, newsletter_subject) ==
    IF logs = <<>>
    THEN <<[id |-> 1, sent_count |-> sent_count, failures |-> failures,
            error_details |-> error_details,
            newsletter_subject |-> newsletter_subject]>>
    ELSE [logs EXCEPT ![Len(logs)] =
              [id |-> Len(logs), sent_count |-> sent_count, failures |-> failures,
               error_details |-> error_details,
               newsletter_subject |-> newsletter_subject]]

\* SendLogDB.create_send_log: append one row
create_send_log(logs, sent_count, failures, error_details, newsletter_subject) ==
    Append(logs, [id |-> Len(logs) + 1,
                  sent_count |-> sent_count,
                  failures |-> failures,
                  error_details |-> error_details,
                  newsletter_subject |-> newsletter_subject])

\* the except branch of main() is entered with the exception e; the finally
\* clause has closed the session when one was open
RaiseToMain(e) ==
    /\ w_error' = e
    /\ wpc' = "except"
    /\ db_session' = IF db_session = "open" THEN "closed" ELSE db_session

\* validate_environment()
Validate ==
    /\ wpc = "start"
    /\ IF Falsy(env.SMTP_EMAIL) \/ Falsy(env.SMTP_PASSWORD)
       THEN RaiseToMain("missing_env")
       ELSE /\ wpc' = "init_db"
            /\ UNCHANGED <<w_error, db_session>>
    /\ UNCHANGED <<harnessVars, cbVars, env, mailerVars, transportVars, storeVars, apiVars,
                   w_recipients, content, exit_status, store_reads, gen_calls>>

\* init_db(); db_session = SessionLocal()
InitDb ==
    /\ wpc = "init_db"
    /\ \/ /\ db_session' = "open"
          /\ wpc' = "fetch"
          /\ UNCHANGED w_error
       \/ RaiseToMain("init_db_failed")
    /\ UNCHANGED <<harnessVars, cbVars, env, mailerVars, transportVars, storeVars, apiVars,
                   w_recipients, content, exit_status, store_reads, gen_calls>>

\* a fetch that goes on to generate content for an empty recipient list
FetchContinue ==
    /\ wpc = "fetch"
    /\ store_reads' = store_reads + 1
    /\ \/ /\ w_recipients' = EmailsOf(get_active_subscribers(subscribers))
          /\ wpc' = "generate"
          /\ UNCHANGED <<db_session, exit_status, w_error>>
       \/ /\ RaiseToMain("fetch_failed")
          /\ UNCHANGED <<w_recipients, exit_status>>
    /\ UNCHANGED <<harnessVars, cbVars, env, mailerVars, transportVars, storeVars, apiVars,
                   content, gen_calls>>

\* recipients = get_active_subscribers(db_session); return when there are none
Fetch ==
    /\ wpc = "fetch"
    /\ store_reads' = store_reads + 1
    /\ \/ LET emails == EmailsOf(get_active_subscribers(subscribers)) IN
          /\ w_recipients' = emails
          /\ IF emails = <<>>
             THEN /\ wpc' = "done"
                  /\ db_session' = "closed"
                  /\ exit_status' = 0
             ELSE /\ wpc' = "generate"
                  /\ UNCHANGED <<db_session, exit_status>>
          /\ UNCHANGED w_error
       \/ /\ RaiseToMain("fetch_failed")
          /\ UNCHANGED <<w_recipients, exit_status>>
    /\ UNCHANGED <<harnessVars, cbVars, env, mailerVars, transportVars, storeVars, apiVars,
                   content, gen_calls>>

\* a generate stage that is tried again after it raised
GenerateRetry ==
    /\ wpc = "generate"
    /\ gen_calls < 3
    /\ gen_calls' = gen_calls + 1
    /\ \/ /\ content' \in {"generated", "fallback"}
          /\ wpc' = "send"
       \/ /\ wpc' = "generate"
          /\ UNCHANGED content
    /\ UNCHANGED <<harnessVars, cbVars, env, mailerVars, transportVars, storeVars, apiVars,
                   w_recipients, exit_status, store_reads, w_error, db_session>>

\* content = generate_newsletter_content()
Generate ==
    /\ wpc = "generate"
    /\ gen_calls' = gen_calls + 1
    /\ \/ /\ content' \in {"generated", "fallback"}
          /\ wpc' = "send"
          /\ UNCHANGED <<w_error, db_session>>
       \/ /\ RaiseToMain("generate_failed")
          /\ UNCHANGED content
    /\ UNCHANGED <<harnessVars, cbVars, env, mailerVars, transportVars, storeVars, apiVars,
                   w_recipients, exit_status, store_reads>>

\* send_newsletter_to_subscribers: sender = EmailSender()
SendStage ==
    /\ wpc = "send"
    /\ mpc = "off"
    /\ mpc' = "new"
    /\ wpc' = "construct"
    /\ UNCHANGED <<harnessVars, cbVars, env, sender, recipients, batches, i, total_sent,
                   total_failed, failed_emails, batch_result, stats,
                   transportVars, storeVars, apiVars, db_session, w_recipients,
                   content, w_error, exit_status, store_reads, gen_calls>>

\* a send stage that reads the active subscribers again when it calls the mailer
SendCallRefetch ==
    /\ wpc = "construct"
    /\ mpc \in {"idle", "config_error"}
    /\ IF mpc = "config_error"
       THEN /\ RaiseToMain("send_failed")
            /\ UNCHANGED <<harnessVars, cbVars, env, mailerVars, transportVars>>
       ELSE /\ Enter(EmailsOf(get_active_subscribers(subscribers)))
            /\ wpc' = "sending"
            /\ UNCHANGED <<w_error, db_session>>
    /\ UNCHANGED <<harnessVars, storeVars, apiVars, w_recipients, content, exit_status,
                   store_reads, gen_calls>>

\* send_newsletter_to_subscribers: sender.send_newsletter(recipients, ...), or
\* the ValueError of the constructor wrapped and re-raised
SendCall ==
    /\ wpc = "construct"
    /\ mpc \in {"idle", "config_error"}
    /\ IF mpc = "config_error"
       THEN /\ RaiseToMain("send_failed")
            /\ UNCHANGED <<harnessVars, cbVars, env, mailerVars, transportVars>>
       ELSE /\ Enter(w_recipients)
            /\ wpc' = "sending"
            /\ UNCHANGED <<w_error, db_session>>
    /\ UNCHANGED <<harnessVars, storeVars, apiVars, w_recipients, content, exit_status,
                   store_reads, gen_calls>>

\* error_details = "Failed emails: ..." when stats has failed_emails, else None
ErrorDetails(st) ==
    IF st.failed_emails # <<>>
    THEN [kind |-> "failed_emails", emails |-> st.failed_emails, message |-> "none"]
    ELSE NoDetails

\* log_sending_statistics(db_session, stats, content["subject"], error_details)
LogStats ==
    /\ wpc = "sending"
    /\ mpc = "returned"
    /\ \/ send_logs' = create_send_log(send_logs, stats.sent, stats.failed,
                                       ErrorDetails(stats), content)
       \/ UNCHANGED send_logs
    /\ wpc' = "summary"
    /\ UNCHANGED <<harnessVars, cbVars, env, mailerVars, transportVars, subscribers, apiVars,
                   db_session, w_recipients, content, w_error, exit_status,
                   store_reads, gen_calls>>

\* a summary that turns failed recipients into a non-zero exit
SummaryStrict ==
    /\ wpc = "summary"
    /\ \/ /\ db_session' = "closed"
          /\ exit_status' = IF stats.failed > 0 THEN 1 ELSE 0
          /\ wpc' = "done"
          /\ UNCHANGED w_error
       \/ /\ RaiseToMain("summary_failed")
          /\ UNCHANGED exit_status
    /\ UNCHANGED <<harnessVars, cbVars, env, mailerVars, transportVars, storeVars, apiVars,
                   w_recipients, content, store_reads, gen_calls>>

\* the summary lines, then finally: db_session.close(); writing the summary to
\* the log file or closing the session may raise, which lands in except
Summary ==
    /\ wpc = "summary"
    /\ \/ /\ db_session' = "closed"
          /\ exit_status' = 0
          /\ wpc' = "done"
          /\ UNCHANGED w_error
       \/ /\ RaiseToMain("summary_failed")
          /\ UNCHANGED exit_status
    /\ UNCHANGED <<harnessVars, cbVars, env, mailerVars, transportVars, storeVars, apiVars,
                   w_recipients, content, store_reads, gen_calls>>

\* an except branch that leaves quietly when the failure SendLog cannot be written
ExceptQuiet ==
    /\ wpc = "except"
    /\ \/ /\ send_logs' = create_send_log(send_logs, 0, 0,
                              [kind |-> "exception", emails |-> <<>>, message |-> w_error],
                              "Newsletter Generation Failed")
          /\ exit_status' = 1
       \/ /\ UNCHANGED send_logs
          /\ exit_status' = 0
    /\ wpc' = "exited"
    /\ UNCHANGED <<harnessVars, cbVars, env, mailerVars, transportVars, subscribers, apiVars,
                   db_session, w_recipients, content, w_error, store_reads,
                   gen_calls>>

\* except Exception as e: try to write the failure SendLog, then sys.exit(1)
Except ==
    /\ wpc = "except"
    /\ \/ send_logs' = create_send_log(send_logs, 0, 0,
                           [kind |-> "exception", emails |-> <<>>, message |-> w_error],
                           "Newsletter Generation Failed")
       \/ UNCHANGED send_logs
    /\ exit_status' = 1
    /\ wpc' = "exited"
    /\ UNCHANGED <<harnessVars, cbVars, env, mailerVars, transportVars, subscribers, apiVars,
                   db_session, w_recipients, content, w_error, store_reads,
                   gen_calls>>

\* SendLog rows written by earlier runs
MaxPriorLogs == 1

EarlierSubject == "earlier issue"

\* n rows left by earlier runs
PriorLogs(n) ==
    [k \in 1..n |-> [id |-> k, sent_count |-> 3, failures |-> 1,
                     error_details |-> NoDetails,
                     newsletter_subject |-> EarlierSubject]]

InitWeekly ==
    /\ cb_recipients = <<>>
    /\ cb_size = 1
    /\ cb_result = <<>>
    /\ cb_done = FALSE
    /\ HarnessOff
    /\ env \in [{"SMTP_EMAIL", "SMTP_PASSWORD"} -> EnvValues]
    /\ MailerOff
    /\ mpc = "off"
    /\ \E n \in 0..MaxSubscribers, per \in 1..(MaxUnsubPeriod + 1) :
           subscribers = InitialTable(n, IF per > MaxUnsubPeriod THEN n + 1 ELSE per)
    /\ \E n \in 0..MaxPriorLogs : send_logs = PriorLogs(n)
    /\ ApiOff
    /\ wpc = "start"
    /\ db_session = "none"
    /\ w_recipients = <<>>
    /\ content = "none"
    /\ w_error = "none"
    /\ exit_status = -1
    /\ store_reads = 0
    /\ gen_calls = 0

NextWeekly ==
    \/ Validate
    \/ InitDb
    \/ Fetch
    \/ Generate
    \/ SendStage
    \/ Construct
    \/ SendCall
    \/ BatchBegin
    \/ Connect
    \/ StartTLS
    \/ Login
    \/ Sendmail
    \/ Quit
    \/ Collect
    \/ Sleep
    \/ Return
    \/ LogStats
    \/ Summary
    \/ Except

SpecWeekly == InitWeekly /\ [][NextWeekly]_vars

\* the sender is built either by a direct caller or by the weekly workflow
InitDispatch == InitMailer \/ InitWeekly

NextDispatch == NextMailer \/ NextWeekly

SpecDispatch == InitDispatch /\ [][NextDispatch]_vars

\* SMTP_EMAIL or SMTP_PASSWORD is missing or empty
CredentialsMissing ==
    \/ env.SMTP_EMAIL \in {"unset", "empty"}
    \/ env.SMTP_PASSWORD \in {"unset", "empty"}

\* C6: with SMTP_EMAIL or SMTP_PASSWORD unset or empty the construction of
\* EmailSender fails at once: no sender exists and no transport session is
\* opened; the weekly workflow stops in validate_environment before it reads
\* the Store, asks for content or sends any mail.
C6_MissingCredentialsFatal ==
    CredentialsMissing =>
        /\ sender = "none"
        /\ mpc \in {"off", "new", "config_error"}
        /\ opened = 0
        /\ attempts = <<>>
        /\ envelopes = <<>>
        /\ wpc \in {"off", "start", "except", "exited"}
        /\ wpc \in {"except", "exited"} => w_error = "missing_env"
        /\ store_reads = 0
        /\ gen_calls = 0
        /\ db_session = "none"

\* the weekly run over a table with active subscribers ended in the failure
\* branch because the password is empty
C6_Witness ==
    /\ env.SMTP_EMAIL = "set"
    /\ env.SMTP_PASSWORD = "empty"
    /\ wpc = "exited"
    /\ exit_status = 1
    /\ get_active_subscribers(subscribers) # <<>>

\* C11: the messages raised by the Store for a duplicate subscribe, an unknown
\* unsubscribe and a repeated unsubscribe contain "already subscribed",
\* "not found" and "already unsubscribed", and the API answers each of them
\* with its own message, success = false and no HTTP 500.
C11_ErrorsMappedToOwnMessage ==
    [][/\ (SubscribeStep /\ StatusOf(subscribers, request'.email) = "active") =>
              /\ Contains(db_error', NeedleAlreadySubscribed)
              /\ response' = [success |-> FALSE, message |-> ApiAlreadySubscribed,
                              status_code |-> 200]
       /\ (UnsubscribeStep /\ StatusOf(subscribers, request'.email) = "none") =>
              /\ Contains(db_error', NeedleNotFound)
              /\ response' = [success |-> FALSE, message |-> ApiNotInList,
                              status_code |-> 200]
       /\ (UnsubscribeStep /\ StatusOf(subscribers, request'.email) = "unsubscribed") =>
              /\ Contains(db_error', NeedleAlreadyUnsubscribed)
              /\ response' = [success |-> FALSE, message |-> ApiAlreadyUnsubscribed,
                              status_code |-> 200]
       /\ ApiAlreadySubscribed # ApiNotInList
       /\ ApiAlreadySubscribed # ApiAlreadyUnsubscribed
       /\ ApiNotInList # ApiAlreadyUnsubscribed]_vars

\* an unsubscribe of an email without a row was answered with its own message
C11_Witness ==
    /\ request.op = "unsubscribe"
    /\ StatusOf(subscribers, request.email) = "none"
    /\ subscribers # <<>>
    /\ response.message = ApiNotInList
    /\ response.status_code = 200

(***************************************************************************)
(* The send log under every writer of the Store: the weekly workflow (with *)
(* the mailer it drives) and the subscribe / unsubscribe requests, each    *)
(* started on tables that earlier runs have already written to.            *)
(***************************************************************************)
InitStoreLogged ==
    /\ cb_recipients = <<>>
    /\ cb_size = 1
    /\ cb_result = <<>>
    /\ cb_done = FALSE
    /\ HarnessOff
    /\ env = [v \in {"SMTP_EMAIL", "SMTP_PASSWORD"} |-> "set"]
    /\ MailerOff
    /\ mpc = "off"
    /\ subscribers = <<>>
    /\ \E n \in 0..MaxPriorLogs : send_logs = PriorLogs(n)
    /\ ApiOff
    /\ WeeklyOff

InitLedger == InitWeekly \/ InitStoreLogged

\* the requests of a behaviour that runs no weekly workflow
StoreRequests == wpc = "off" /\ NextStore

NextLedger == NextWeekly \/ StoreRequests

SpecLedger == InitLedger /\ [][NextLedger]_vars

\* C12: the send log is append-only: a step either leaves send_logs alone or
\* adds exactly one row after the existing rows, which stay as they were; no
\* step of the Store, the mailer or the weekly workflow updates or deletes a
\* row.
C12_SendLogAppendOnly ==
    [][\/ send_logs' = send_logs
       \/ /\ Len(send_logs') = Len(send_logs) + 1
          /\ SubSeq(send_logs', 1, Len(send_logs)) = send_logs]_vars

\* a run has added its row behind the row of an earlier run
C12_Witness ==
    /\ Len(send_logs) >= 2
    /\ send_logs[1].newsletter_subject = EarlierSubject
    /\ send_logs[Len(send_logs)].newsletter_subject # EarlierSubject

(***************************************************************************)
(* The ad-hoc mass send: send_to_all.py, main().  It reads the active      *)
(* subscribers, takes its content from the generator, a file or the sample,*)
(* builds an EmailSender and calls send_newsletter.  It has no try/except: *)
(* the ValueError of the constructor ends the process.                     *)
(***************************************************************************)
\* lines 40-62: init_db(), get_active_subscribers(), return when there are none
AllFetch ==
    /\ wpc = "all_start"
    /\ store_reads' = store_reads + 1
    /\ db_session' = "open"
    /\ LET emails == EmailsOf(get_active_subscribers(subscribers)) IN
       /\ w_recipients' = emails
       /\ IF emails = <<>>
          THEN /\ wpc' = "all_done"
               /\ exit_status' = 0
          ELSE /\ wpc' = "all_content"
               /\ UNCHANGED exit_status
    /\ UNCHANGED <<harnessVars, cbVars, env, mailerVars, transportVars, storeVars, apiVars,
                   content, w_error, gen_calls>>

\* lines 64-82: --generate-content, --file or the sample content
AllContent ==
    /\ wpc = "all_content"
    /\ \/ /\ gen_calls' = gen_calls + 1
          /\ content' \in {"generated", "fallback"}
       \/ /\ content' \in {"file", "sample"}
          /\ UNCHANGED gen_calls
    /\ wpc' = "all_send"
    /\ UNCHANGED <<harnessVars, cbVars, env, mailerVars, transportVars, storeVars, apiVars,
                   db_session, w_recipients, w_error, exit_status, store_reads>>

\* line 88: sender = EmailSender()
AllSend ==
    /\ wpc = "all_send"
    /\ mpc = "off"
    /\ mpc' = "new"
    /\ wpc' = "all_construct"
    /\ UNCHANGED <<harnessVars, cbVars, env, sender, recipients, batches, i, total_sent,
                   total_failed, failed_emails, batch_result, stats,
                   transportVars, storeVars, apiVars, db_session, w_recipients,
                   content, w_error, exit_status, store_reads, gen_calls>>

\* lines 89-96: sender.send_newsletter(recipients=emails, ...), or the process
\* dies of the constructor's ValueError
AllCall ==
    /\ wpc = "all_construct"
    /\ mpc \in {"idle", "config_error"}
    /\ IF mpc = "config_error"
       THEN /\ wpc' = "all_crashed"
            /\ exit_status' = 1
            /\ UNCHANGED <<harnessVars, cbVars, env, mailerVars, transportVars>>
       ELSE /\ Enter(w_recipients)
            /\ wpc' = "all_sending"
            /\ UNCHANGED exit_status
    /\ UNCHANGED <<harnessVars, storeVars, apiVars, db_session, w_recipients, content, w_error,
                   store_reads, gen_calls>>

\* lines 98-104: print the outcome, db_session.close()
AllFinish ==
    /\ wpc = "all_sending"
    /\ mpc = "returned"
    /\ db_session' = "closed"
    /\ exit_status' = 0
    /\ wpc' = "all_done"
    /\ UNCHANGED <<harnessVars, cbVars, env, mailerVars, transportVars, storeVars, apiVars,
                   w_recipients, content, w_error, store_reads, gen_calls>>

InitSendToAll ==
    /\ cb_recipients = <<>>
    /\ cb_size = 1
    /\ cb_result = <<>>
    /\ cb_done = FALSE
    /\ HarnessOff
    /\ env \in [{"SMTP_EMAIL", "SMTP_PASSWORD"} -> EnvValues]
    /\ MailerOff
    /\ mpc = "off"
    /\ \E n \in 0..MaxSubscribers, per \in 1..(MaxUnsubPeriod + 1) :
           subscribers = InitialTable(n, IF per > MaxUnsubPeriod THEN n + 1 ELSE per)
    /\ \E n \in 0..MaxPriorLogs : send_logs = PriorLogs(n)
    /\ ApiOff
    /\ wpc = "all_start"
    /\ db_session = "none"
    /\ w_recipients = <<>>
    /\ content = "none"
    /\ w_error = "none"
    /\ exit_status = -1
    /\ store_reads = 0
    /\ gen_calls = 0

InitEntryPoints == InitWeekly \/ InitSendToAll

NextEntryPoints ==
    \/ NextWeekly
    \/ AllFetch
    \/ AllContent
    \/ AllSend
    \/ AllCall
    \/ AllFinish

SpecEntryPoints == InitEntryPoints /\ [][NextEntryPoints]_vars

\* the SendLog rows written by this run
NewLogs(logs) == SelectSeq(logs, LAMBDA r : r.newsletter_subject # EarlierSubject)

\* a run of either entry point is over
RunOver == wpc \in {"done", "exited", "all_done", "all_crashed"}

\* C13: every send attempt leaves one SendLog record, in the weekly run and in
\* the ad-hoc mass send, whichever batches succeed or fail.
C13_EverySendLogged ==
    (RunOver /\ mpc = "returned") => Len(NewLogs(send_logs)) = 1

(***************************************************************************)
(* SendLogDB.get_send_statistics, a pure function of the send_logs rows:   *)
(* Init draws the rows, the one action applies the function.  Latencies    *)
(* are time measurements and are not modelled.  success_rate is kept in    *)
(* hundredths of a percent, as round(..., 2) leaves it.                    *)
(***************************************************************************)
\* rows of the table, and the largest sent_count / failures of a row
MaxLogRows == 3
MaxCount == 3

\* sum(log.sent_count for log in logs)
RECURSIVE SumSent(_)
SumSent(logs) == IF logs = <<>> THEN 0 ELSE Head(logs).sent_count + SumSent(Tail(logs))

\* sum(log.failures for log in logs)
RECURSIVE SumFailures(_)
SumFailures(logs) == IF logs = <<>> THEN 0 ELSE Head(logs).failures + SumFailures(Tail(logs))

\* a get_send_statistics that calls a table without any attempt fully successful
get_send_statisticsVacuous(logs) ==
    IF logs = <<>>
    THEN [total_sent |-> 0, total_failures |-> 0, success_rate |-> 0]
    ELSE LET total_sent_ == SumSent(logs)
             total_failures_ == SumFailures(logs) IN
         [total_sent |-> total_sent_,
          total_failures |-> total_failures_,
          success_rate |-> IF total_sent_ + total_failures_ > 0
                           THEN RatePct100(total_sent_, total_sent_ + total_failures_)
                           ELSE 10000]

\* SendLogDB.get_send_statistics
get_send_statistics(logs) ==
    IF logs = <<>>
    THEN [total_sent |-> 0, total_failures |-> 0, success_rate |-> 0]
    ELSE LET total_sent_ == SumSent(logs)
             total_failures_ == SumFailures(logs) IN
         [total_sent |-> total_sent_,
          total_failures |-> total_failures_,
          success_rate |-> IF total_sent_ + total_failures_ > 0
                           THEN RatePct100(total_sent_, total_sent_ + total_failures_)
                           ELSE 0]

\* a table of n rows with these counts
LogTable(n, sent, fail) ==
    [k \in 1..n |-> [id |-> k, sent_count |-> sent[k], failures |-> fail[k],
                     error_details |-> NoDetails,
                     newsletter_subject |-> EarlierSubject]]

InitStats ==
    /\ cb_recipients = <<>>
    /\ cb_size = 1
    /\ cb_result = <<>>
    /\ cb_done = FALSE
    /\ HarnessOff
    /\ env = [v \in {"SMTP_EMAIL", "SMTP_PASSWORD"} |-> "set"]
    /\ MailerOff
    /\ mpc = "off"
    /\ subscribers = <<>>
    /\ \E n \in 0..MaxLogRows :
           \E sent \in [1..n -> 0..MaxCount], fail \in [1..n -> 0..MaxCount] :
               send_logs = LogTable(n, sent, fail)
    /\ ApiOff
    /\ WeeklyOff

GetSendStatistics ==
    /\ ~st_done
    /\ wpc = "off"
    /\ st_result' = get_send_statistics(send_logs)
    /\ st_done' = TRUE
    /\ UNCHANGED <<cbVars, env, mailerVars, transportVars, storeVars, apiVars,
                   weeklyVars, contentVars, raceVars, twinVars>>

NextStats == GetSendStatistics

SpecStats == InitStats /\ [][NextStats]_vars

\* sent_count summed over the first n rows
RECURSIVE SentUpTo(_, _)
SentUpTo(logs, n) == IF n = 0 THEN 0 ELSE SentUpTo(logs, n - 1) + logs[n].sent_count

\* failures summed over the first n rows
RECURSIVE FailuresUpTo(_, _)
FailuresUpTo(logs, n) == IF n = 0 THEN 0 ELSE FailuresUpTo(logs, n - 1) + logs[n].failures

\* C14 as stated: total_sent and total_failures are the sums over the rows and
\* success_rate is exactly total_sent / (total_sent + total_failures) * 100,
\* and 0 when there is no row or no attempt.
C14_ExactRate ==
    st_done =>
        LET ts == SentUpTo(send_logs, Len(send_logs))
            tf == FailuresUpTo(send_logs, Len(send_logs)) IN
        /\ st_result.total_sent = ts
        /\ st_result.total_failures = tf
        /\ IF ts + tf > 0
           THEN st_result.success_rate * (ts + tf) = ts * 10000
           ELSE st_result.success_rate = 0

\* C14 as amended: success_rate is that quotient rounded to two decimals
\* (at most half a hundredth away from it), and 0 when there is no row or
\* every row has sent_count = failures = 0.
C14_RoundedRate ==
    st_done =>
        LET ts == SentUpTo(send_logs, Len(send_logs))
            tf == FailuresUpTo(send_logs, Len(send_logs))
            diff == st_result.success_rate * (ts + tf) - ts * 10000 IN
        /\ st_result.total_sent = ts
        /\ st_result.total_failures = tf
        /\ IF ts + tf > 0
           THEN /\ 2 * diff <= ts + tf
                /\ 2 * diff >= 0 - (ts + tf)
           ELSE st_result.success_rate = 0

\* rows that hold only zero counts, as the failure rows of the weekly run do
C14_Witness ==
    /\ st_done
    /\ Len(send_logs) = 2
    /\ SentUpTo(send_logs, Len(send_logs)) = 0
    /\ FailuresUpTo(send_logs, Len(send_logs)) = 0
    /\ st_result.success_rate = 0

\* the addresses the Store holds as active
ActiveEmails == EmailsOf(get_active_subscribers(subscribers))

\* the row the except branch of main() writes for the exception e
FailureRow(logs, e) ==
    [id |-> Len(logs) + 1, sent_count |-> 0, failures |-> 0,
     error_details |-> [kind |-> "exception", emails |-> <<>>, message |-> e],
     newsletter_subject |-> "Newsletter Generation Failed"]

\* C15: a weekly run that finds no active subscriber ends as a successful
\* no-op: no content is requested, no EmailSender is built, no mail is sent,
\* no SendLog row is written, the session is closed and the exit status is
\* not non-zero.
C15_NoSubscribersNoOp ==
    (store_reads >= 1 /\ w_error = "none" /\ ActiveEmails = <<>>) =>
        /\ wpc = "done"
        /\ exit_status = 0
        /\ gen_calls = 0
        /\ content = "none"
        /\ sender = "none"
        /\ mpc = "off"
        /\ opened = 0
        /\ attempts = <<>>
        /\ envelopes = <<>>
        /\ NewLogs(send_logs) = <<>>
        /\ db_session = "closed"

\* a run over a Store that holds rows, all of them unsubscribed, has ended
C15_Witness ==
    /\ wpc = "done"
    /\ store_reads = 1
    /\ subscribers # <<>>
    /\ ActiveEmails = <<>>
    /\ db_session = "closed"

\* C16: when a stage raises, main() reaches its except branch with the
\* exception; that branch appends a failure SendLog with sent_count 0 and the
\* exception message as error_details or, when that write fails, appends
\* nothing, and in both cases exits with status 1.
C16_FailureLoggedThenExit ==
    [][ /\ (w_error = "none" /\ w_error' # "none") => wpc' = "except"
        /\ wpc = "except" =>
              /\ w_error # "none"
              /\ wpc' = "exited"
              /\ exit_status' = 1
              /\ \/ send_logs' = send_logs
                 \/ send_logs' = Append(send_logs, FailureRow(send_logs, w_error))
        /\ wpc = "exited" => exit_status = 1 ]_vars

\* the fetch stage raised, the failure SendLog could not be written, and the
\* run has exited
C16_Witness ==
    /\ wpc = "exited"
    /\ w_error = "fetch_failed"
    /\ NewLogs(send_logs) = <<>>
    /\ exit_status = 1

\* the row log_sending_statistics writes for the statistics of the run
StatsRowWritten ==
    /\ NewLogs(send_logs) # <<>>
    /\ NewLogs(send_logs)[1].newsletter_subject = content

\* C17: a weekly run that reached the Batch Mailer and wrote its SendLog row
\* has appended exactly one row, whatever happens after that row is written.
C17_ExactlyOneRow ==
    (wpc \in {"done", "exited"} /\ mpc = "returned" /\ StatsRowWritten) =>
        Len(NewLogs(send_logs)) = 1

MaxLines == 2

Rocket == "ROCKET"

Mailbox == "MAILBOX"

Date == "DATE"

UpperCase == <<"A", "B", "C", "D", "E", "F", "G", "H", "I", "J", "K", "L", "M", "N", "O", "P", "Q", "R", "S", "T", "U", "V", "W", "X", "Y", "Z">>

LowerCase == <<"a", "b", "c", "d", "e", "f", "g", "h", "i", "j", "k", "l", "m", "n", "o", "p", "q", "r", "s", "t", "u", "v", "w", "x", "y", "z">>

\* str.lower() of one character
LowerChar(c) ==
    IF \E k \in 1..Len(UpperCase) : UpperCase[k] = c
    THEN LowerCase[CHOOSE k \in 1..Len(UpperCase) : UpperCase[k] = c]
    ELSE c

\* str.lower()
lower(text) == [k \in 1..Len(text) |-> LowerChar(text[k])]

\* str.replace(old, ''): every occurrence of old, left to right, is removed
RECURSIVE Remove(_, _)
Remove(text, old) ==
    IF Len(text) < Len(old) \/ text = <<>>
    THEN text
    ELSE IF SubSeq(text, 1, Len(old)) = old
         THEN Remove(SubSeq(text, Len(old) + 1, Len(text)), old)
         ELSE <<Head(text)>> \o Remove(Tail(text), old)

RECURSIVE lstrip(_)
lstrip(text) ==
    IF text # <<>> /\ Head(text) = " " THEN lstrip(Tail(text)) ELSE text

RECURSIVE rstrip(_)
rstrip(text) ==
    IF text # <<>> /\ text[Len(text)] = " "
    THEN rstrip(SubSeq(text, 1, Len(text) - 1))
    ELSE text

\* str.strip()
strip(text) == rstrip(lstrip(text))

\* the slice [:60] of _extract_content_from_text
SubjectLimit == 60

WordSubject == <<"S", "u", "b", "j", "e", "c", "t", ":">>

WordTitle == <<"T", "i", "t", "l", "e", ":">>

\* the words that mark a subject line, looked for in line.lower()
SubjectMarks ==
    {<<"s", "u", "b", "j", "e", "c", "t", ":">>,
     <<"t", "i", "t", "l", "e", ":">>,
     <<Rocket>>, <<Mailbox>>}

\* subject = "<rocket> Weekly AI & Tech Update"
DefaultSubject ==
    <<Rocket>> \o <<" ", "W", "e", "e", "k", "l", "y", " ", "A", "I", " ", "&", " ", "T", "e", "c", "h", " ", "U", "p", "d", "a", "t", "e">>

\* f"<rocket> Tech Update for {current_date}"
FallbackSubject ==
    <<Rocket>> \o <<" ", "T", "e", "c", "h", " ", "U", "p", "d", "a", "t", "e", " ", "f", "o", "r", " ">> \o <<Date>>

\* SAMPLE_NEWSLETTER_CONTENT["html"]
SampleHtml == <<"<sample sections>">>

\* HTML_EMAIL_TEMPLATE.format(subject=subject, content_sections=content)
wrap_in_email_template(subject, content_sections) ==
    <<"<html><title>">> \o subject \o <<"</title><p class=subject>">> \o subject
        \o <<"</p><content>">> \o content_sections \o <<"</content></html>">>

\* index of the first line that holds a subject mark, 0 when there is none
RECURSIVE FirstMarked(_, _)
FirstMarked(lines, k) ==
    IF k > Len(lines)
    THEN 0
    ELSE IF \E word \in SubjectMarks : Contains(lower(lines[k]), word)
         THEN k
         ELSE FirstMarked(lines, k + 1)

\* text.replace('\n', '<br>') over the lines of the text
RECURSIVE JoinBr(_, _)
JoinBr(lines, k) ==
    IF k > Len(lines)
    THEN <<>>
    ELSE IF k = Len(lines)
         THEN lines[k]
         ELSE lines[k] \o <<"<br>">> \o JoinBr(lines, k + 1)

\* ContentGenerator._extract_content_from_text(text), text given by its lines
extract_content_from_text(lines) ==
    LET k == FirstMarked(lines, 1)
        cut == IF k = 0 THEN <<>>
               ELSE strip(Remove(Remove(lines[k], WordSubject), WordTitle))
        subject == IF k = 0
                   THEN DefaultSubject
                   ELSE SubSeq(cut, 1, Min(SubjectLimit, Len(cut)))
    IN  [subject |-> subject,
         html |-> wrap_in_email_template(subject,
                      <<"<section>">> \o JoinBr(lines, 1) \o <<"</section>">>),
         source |-> "extracted"]

\* ContentGenerator._get_fallback_content()
get_fallback_content ==
    [subject |-> FallbackSubject,
     html |-> wrap_in_email_template(FallbackSubject, SampleHtml),
     source |-> "fallback"]

\* os.getenv(name, default) of a variable that may be unset
getenv(v, default) == IF v.set THEN v.value ELSE default

WordOpenai == <<"o", "p", "e", "n", "a", "i">>

WordOllama == <<"o", "l", "l", "a", "m", "a">>

\* a selection that compares AI_PROVIDER as it is written
use_openaiExact(e) ==
    /\ getenv(e.AI_PROVIDER, WordOllama) = WordOpenai
    /\ ~Falsy(e.OPENAI_API_KEY)

\* ContentGenerator.__init__: provider = os.getenv("AI_PROVIDER", "ollama").lower();
\* use_openai = (provider == "openai") and bool(self.openai_api_key)
use_openai(e) ==
    /\ lower(getenv(e.AI_PROVIDER, WordOllama)) = WordOpenai
    /\ ~Falsy(e.OPENAI_API_KEY)

\* values of AI_PROVIDER: unset, "openai", "OpenAI", "ollama", "" and "gpt"
ProviderValues ==
    {NoVariable} \cup
    {[set |-> TRUE, value |-> v] :
        v \in {WordOpenai, <<"O", "p", "e", "n", "A", "I">>, WordOllama, <<>>, <<"g", "p", "t">>}}

\* lines a backend may write when its answer is not JSON
SampleLines ==
    {<<>>,
     <<"H", "i">>,
     WordSubject,
     WordSubject \o <<" ", "H", "i">>,
     <<"S", "U", "B", "J", "E", "C", "T", ":", " ", "H", "i">>,
     WordTitle \o <<"H", "i">>,
     <<Rocket>> \o <<" ", "H", "i">>,
     WordTitle \o [k \in 1..(SubjectLimit + 1) |-> "a"]}

\* what the selected backend may answer
BackendOutcomes ==
    {Outcome(kind, {}, <<>>, <<>>, <<>>) :
        kind \in {"connection_error", "bad_status", "body_not_json", "json_other"}}
    \cup
    {Outcome("json_object", keys, subject, html, <<>>) :
        keys \in SUBSET {"subject", "html"},
        subject \in {<<>>, <<"H", "i">>},
        html \in {<<>>, <<"<p>">>}}
    \cup
    {Outcome("text", {}, <<>>, <<>>, lines) :
        lines \in UNION {[1..n -> SampleLines] : n \in 1..MaxLines}}

\* the try block shared by both backends once the text of the answer is there:
\* json.loads, the test for both keys, the wrapping of the html
ParsedContent(b) ==
    IF b.kind = "text"
    THEN extract_content_from_text(b.lines)
    ELSE IF b.kind = "json_object" /\ {"subject", "html"} \subseteq b.keys
         THEN [subject |-> b.subject,
               html |-> wrap_in_email_template(b.subject, b.html),
               source |-> "generated"]
         ELSE get_fallback_content

\* ContentGenerator._generate_with_openai(): a missing library or an API
\* error ends in the fallback content
generate_with_openai(b) ==
    IF b.kind \in {"connection_error", "bad_status", "body_not_json"}
    THEN get_fallback_content
    ELSE ParsedContent(b)

\* ContentGenerator._generate_with_ollama(): a RequestException, a status
\* other than 200 or a body that is not JSON ends in the fallback content
generate_with_ollama(b) ==
    IF b.kind = "connection_error"
    THEN get_fallback_content
    ELSE IF b.kind = "bad_status"
         THEN get_fallback_content
         ELSE IF b.kind = "body_not_json"
              THEN get_fallback_content
              ELSE ParsedContent(b)

\* generator = ContentGenerator()
NewContentGenerator ==
    /\ cg_pc = "new"
    /\ cg_use_openai' = use_openai(cg_env)
    /\ cg_pc' = "ready"
    /\ UNCHANGED <<cbVars, env, mailerVars, transportVars, storeVars, apiVars,
                   weeklyVars, statVars, raceVars, twinVars, cg_env, cg_backend, cg_called, cg_result>>

\* generate_newsletter_content(): if self.use_openai ... else ...
GenerateNewsletterContent ==
    /\ cg_pc = "ready"
    /\ IF cg_use_openai
       THEN /\ cg_pc' = "openai"
            /\ cg_called' = Append(cg_called, "openai")
       ELSE /\ cg_pc' = "ollama"
            /\ cg_called' = Append(cg_called, "ollama")
    /\ UNCHANGED <<cbVars, env, mailerVars, transportVars, storeVars, apiVars,
                   weeklyVars, statVars, raceVars, twinVars, cg_env, cg_backend, cg_result, cg_use_openai>>

\* return self._generate_with_openai()
GenerateWithOpenai ==
    /\ cg_pc = "openai"
    /\ cg_result' = generate_with_openai(cg_backend)
    /\ cg_pc' = "returned"
    /\ UNCHANGED <<cbVars, env, mailerVars, transportVars, storeVars, apiVars,
                   weeklyVars, statVars, raceVars, twinVars, cg_env, cg_backend, cg_called, cg_use_openai>>

\* return self._generate_with_ollama()
GenerateWithOllama ==
    /\ cg_pc = "ollama"
    /\ cg_result' = generate_with_ollama(cg_backend)
    /\ cg_pc' = "returned"
    /\ UNCHANGED <<cbVars, env, mailerVars, transportVars, storeVars, apiVars,
                   weeklyVars, statVars, raceVars, twinVars, cg_env, cg_backend, cg_called, cg_use_openai>>

InitContent ==
    /\ cb_recipients = <<>>
    /\ cb_size = 1
    /\ cb_result = <<>>
    /\ cb_done = FALSE
    /\ st_result = NoSendStatistics
    /\ st_done = FALSE
    /\ cg_env \in [AI_PROVIDER : ProviderValues, OPENAI_API_KEY : EnvValues]
    /\ cg_backend \in BackendOutcomes
    /\ cg_pc = "new"
    /\ cg_called = <<>>
    /\ cg_result = NoContent
    /\ cg_use_openai = FALSE
    /\ RaceOff
    /\ TwinOff
    /\ env = [v \in {"SMTP_EMAIL", "SMTP_PASSWORD"} |-> "set"]
    /\ MailerOff
    /\ mpc = "off"
    /\ subscribers = <<>>
    /\ send_logs = <<>>
    /\ ApiOff
    /\ WeeklyOff

NextContent ==
    \/ NewContentGenerator
    \/ GenerateNewsletterContent
    \/ GenerateWithOpenai
    \/ GenerateWithOllama

SpecContent == InitContent /\ [][NextContent]_vars

\* C19: generate_newsletter_content returns, for every backend outcome, a
\* result whose subject and html are both non-empty.
C19_AlwaysValidContent ==
    cg_pc = "returned" =>
        /\ cg_result.subject # <<>>
        /\ cg_result.html # <<>>

\* the backend answered with something that is not a JSON object holding both
\* keys: it was unavailable, or its output was unparseable or lacked a key
Malformed(b) ==
    \/ b.kind \in {"connection_error", "bad_status", "body_not_json", "json_other",
                   "text"}
    \/ b.kind = "json_object" /\ ~({"subject", "html"} \subseteq b.keys)

\* the static fallback content
StaticFallback ==
    [subject |-> FallbackSubject,
     html |-> <<"<html><title>">> \o FallbackSubject \o <<"</title><p class=subject>">>
                  \o FallbackSubject \o <<"</p><content>">> \o SampleHtml
                  \o <<"</content></html>">>,
     source |-> "fallback"]

\* C20 as stated: the hosted backend is called exactly when AI_PROVIDER is
\* "openai" and a key is configured, otherwise the local one; a malformed or
\* missing answer gives the static fallback; only one backend is called.
C20_FallbackOnMalformed ==
    cg_pc = "returned" =>
        /\ cg_called \in {<<"openai">>, <<"ollama">>}
        /\ cg_called = <<"openai">> <=>
               /\ cg_env.AI_PROVIDER = [set |-> TRUE, value |-> WordOpenai]
               /\ cg_env.OPENAI_API_KEY = "set"
        /\ Malformed(cg_backend) => cg_result = StaticFallback

\* C20: the hosted backend is called exactly when AI_PROVIDER, lower-cased,
\* is "openai" and a non-empty key is configured, otherwise the local one;
\* only one backend is called; an unavailable backend or JSON without the
\* keys gives the static fallback; a text that is not JSON is not replaced by
\* the fallback: the result is built from that text.
C20_SelectionAndFallback ==
    cg_pc = "returned" =>
        /\ cg_called \in {<<"openai">>, <<"ollama">>}
        /\ cg_called = <<"openai">> <=>
               /\ cg_env.AI_PROVIDER.set
               /\ lower(cg_env.AI_PROVIDER.value) = WordOpenai
               /\ cg_env.OPENAI_API_KEY = "set"
        /\ (Malformed(cg_backend) /\ cg_backend.kind # "text") =>
               cg_result = StaticFallback
        /\ cg_backend.kind = "text" =>
               /\ cg_result.source = "extracted"
               /\ cg_result # StaticFallback
               /\ Contains(cg_result.html, JoinBr(cg_backend.lines, 1))

\* AI_PROVIDER=OpenAI with a key: the hosted backend answered with a text
\* that is not JSON and the result was built from it
C20_Witness ==
    /\ cg_pc = "returned"
    /\ cg_env.AI_PROVIDER.set
    /\ cg_env.AI_PROVIDER.value # WordOpenai
    /\ cg_called = <<"openai">>
    /\ cg_backend.kind = "text"
    /\ cg_result.source = "extracted"

\* C21: during send_newsletter at most one transport session is open at any
\* time, and the session of a batch is closed when the result of that batch
\* is returned, whether the batch was sent or one of its calls raised.
C21_OneSessionAtATime ==
    /\ open_sessions <= 1
    /\ mpc \in {"collect", "sleep", "loop", "returned"} => open_sessions = 0

\* the pause of send_newsletter has run for every batch before the current one
\* and never after the last
SleepsDue == Min(i, IF batches = <<>> THEN 0 ELSE Len(batches) - 1)

\* C22: send_newsletter waits once after each batch except the last, after the
\* result of that batch is known and before the next session is opened,
\* whether the batch was sent or failed: max(0, k-1) waits for k batches,
\* none for at most 50 recipients.
C22_SleepsBetweenBatches ==
    /\ mpc \in {"loop", "connect", "starttls", "login", "sendmail", "quit",
                "collect", "sleep", "returned"} =>
           /\ sleeps = SleepsDue
           /\ Len(attempts) \in {sleeps, sleeps + 1}
    /\ mpc = "sleep" => (Len(attempts) = sleeps + 1 /\ i < Len(batches) - 1)
    /\ mpc = "connect" => sleeps = Len(attempts) - 1
    /\ mpc = "returned" =>
           /\ sleeps = (IF batches = <<>> THEN 0 ELSE Len(batches) - 1)
           /\ Len(recipients) <= max_batch_size => sleeps = 0

\* three batches, the first two failed, and the run waited twice
C22_Witness ==
    /\ mpc = "returned"
    /\ Len(batches) = 3
    /\ raised = <<1, 2>>
    /\ sleeps = 2

\* C25: every message handed to the transport is addressed to at most
\* max_batch_size envelope recipients.
C25_EnvelopeWithinCeiling ==
    \A k \in 1..Len(envelopes) : envelopes[k] <= max_batch_size

\* the place of a point of main() in the order of its stages: validate,
\* init_db, fetch, generate, send (construct, sending), persist, summary
StageRank(pc) ==
    CASE pc = "start" -> 1
      [] pc = "init_db" -> 2
      [] pc = "fetch" -> 3
      [] pc = "generate" -> 4
      [] pc = "send" -> 5
      [] pc = "construct" -> 6
      [] pc = "sending" -> 7
      [] pc = "summary" -> 8
      [] pc = "done" -> 9
      [] OTHER -> 0

MailerRunning ==
    mpc \in {"loop", "connect", "starttls", "login", "sendmail", "quit", "collect",
             "sleep"}

\* the weekly run is between its fetch and the return of send_newsletter
MailingPhase ==
    \/ wpc \in {"generate", "send", "construct"}
    \/ wpc = "sending" /\ mpc # "returned"

\* C24: between the fetch and the return of send_newsletter the weekly run
\* neither reads nor writes the Store, and no step of send_newsletter changes
\* the subscribers or the send log.
C24_NoStoreAccessWhileMailing ==
    [][(MailerRunning \/ MailingPhase) =>
           /\ subscribers' = subscribers
           /\ send_logs' = send_logs
           /\ store_reads' = store_reads]_vars

\* a weekly run of two batches or more is back from send_newsletter and has
\* not written its row yet
C24_Witness ==
    /\ wpc = "sending"
    /\ mpc = "returned"
    /\ Len(batches) >= 2
    /\ envelopes # <<>>
    /\ store_reads = 1
    /\ NewLogs(send_logs) = <<>>

(***************************************************************************)
(* Two workers of the API serve requests on one database.  A request is    *)
(* served in two steps, as SubscriberDB does it: the SELECT of             *)
(* get_subscriber_by_email, then the INSERT or UPDATE and its commit; the  *)
(* other worker may run between the two.  The email column is UNIQUE.      *)
(***************************************************************************)
MaxRaceOps == 4

MaxRaceEmails == 2

\* detail of the HTTPException of subscribe() and of unsubscribe()
MsgServerErrorSubscribe ==
    <<"An error occurred while processing your subscription. Please try again later.">>

MsgServerErrorUnsubscribe ==
    <<"An error occurred while processing your unsubscription. Please try again later.">>

NoError == [kind |-> "none", message |-> <<>>]

ValueError(message) == [kind |-> "ValueError", message |-> message]

IntegrityError == [kind |-> "IntegrityError", message |-> <<>>]

\* an INSERT into a table without the UNIQUE constraint on email
insert_subscriberNoUnique(subs, email) ==
    [subscribers |->
         Append(subs, [id |-> NextId(subs), email |-> email, status |-> "active"]),
     error |-> NoError]

\* db.add(Subscriber(email=email, status="active")); db.commit() on the table
\* whose email column is unique=True
insert_subscriber(subs, email) ==
    IF \E k \in 1..Len(subs) : subs[k].email = email
    THEN [subscribers |-> subs, error |-> IntegrityError]
    ELSE [subscribers |->
              Append(subs, [id |-> NextId(subs), email |-> email, status |-> "active"]),
          error |-> NoError]

\* subscriber.status = status; db.commit(): UPDATE of the row the check read
update_status(subs, email, status) ==
    [subscribers |->
         [k \in 1..Len(subs) |->
              IF subs[k].email = email THEN [subs[k] EXCEPT !.status = status]
              ELSE subs[k]],
     error |-> NoError]

\* main.subscribe: the reply for what create_subscriber raised
subscribe_reply(e) ==
    IF e.kind = "none"
    THEN [success |-> TRUE, message |-> ApiSubscribed, status_code |-> 200]
    ELSE IF e.kind = "ValueError"
         THEN IF Contains(e.message, NeedleAlreadySubscribed)
              THEN [success |-> FALSE, message |-> ApiAlreadySubscribed,
                    status_code |-> 200]
              ELSE [success |-> FALSE, message |-> e.message, status_code |-> 200]
         ELSE [success |-> FALSE, message |-> MsgServerErrorSubscribe,
               status_code |-> 500]

\* main.unsubscribe: the reply for what unsubscribe_subscriber raised
unsubscribe_reply(e) ==
    IF e.kind = "none"
    THEN [success |-> TRUE, message |-> ApiUnsubscribed, status_code |-> 200]
    ELSE IF e.kind = "ValueError"
         THEN IF Contains(e.message, NeedleNotFound)
              THEN [success |-> FALSE, message |-> ApiNotInList, status_code |-> 200]
              ELSE IF Contains(e.message, NeedleAlreadyUnsubscribed)
                   THEN [success |-> FALSE, message |-> ApiAlreadyUnsubscribed,
                         status_code |-> 200]
                   ELSE [success |-> FALSE, message |-> e.message,
                         status_code |-> 200]
         ELSE [success |-> FALSE, message |-> MsgServerErrorUnsubscribe,
               status_code |-> 500]

\* the worker that is not w
Other(w) == CHOOSE v \in Workers : v # w

\* the worker w has answered with the reply r
Answered(w, r) ==
    [reqs[w] EXCEPT !.pc = "done", !.success = r.success, !.message = r.message,
                    !.status_code = r.status_code]

\* a request reaches worker w, which runs get_subscriber_by_email and the
\* tests on the row; a rejection is answered at once
RaceCheck(w, op, email) ==
    /\ reqs[w].pc \in {"idle", "done"}
    /\ nops < MaxRaceOps
    /\ nops' = nops + 1
    /\ LET k == get_subscriber_by_email(subscribers, email)
           seen == IF k = 0 THEN "none" ELSE subscribers[k].status
           o == reqs[Other(w)]
           rival == IF o.pc = "checked" /\ o.op = op /\ o.email = email
                    THEN o.id ELSE 0
           work == [pc |-> "checked", id |-> nops + 1, op |-> op, email |-> email,
                    seen |-> seen, rival |-> rival, success |-> FALSE,
                    message |-> <<>>, status_code |-> 0]
           reject(r) == [work EXCEPT !.pc = "done", !.success = r.success,
                                     !.message = r.message,
                                     !.status_code = r.status_code]
       IN  reqs' = [reqs EXCEPT ![w] =
               IF op = "subscribe"
               THEN IF seen = "active"
                    THEN reject(subscribe_reply(ValueError(MsgAlreadySubscribed)))
                    ELSE work
               ELSE IF seen = "none"
                    THEN reject(unsubscribe_reply(ValueError(MsgNotFound)))
                    ELSE IF seen = "unsubscribed"
                         THEN reject(unsubscribe_reply(ValueError(MsgAlreadyUnsubscribed)))
                         ELSE work]
    /\ UNCHANGED <<cbVars, env, mailerVars, transportVars, storeVars, request, db_error,
                   response, weeklyVars, statVars, contentVars, twinVars>>

\* worker w writes and commits what its check decided, and answers
RaceCommit(w) ==
    /\ reqs[w].pc = "checked"
    /\ LET r == IF reqs[w].op = "subscribe"
                THEN IF reqs[w].seen = "none"
                     THEN insert_subscriber(subscribers, reqs[w].email)
                     ELSE update_status(subscribers, reqs[w].email, "active")
                ELSE update_status(subscribers, reqs[w].email, "unsubscribed")
       IN  /\ subscribers' = r.subscribers
           /\ reqs' = [reqs EXCEPT ![w] =
                  Answered(w, IF reqs[w].op = "subscribe"
                              THEN subscribe_reply(r.error)
                              ELSE unsubscribe_reply(r.error))]
    /\ UNCHANGED <<cbVars, env, mailerVars, transportVars, send_logs, apiVars,
                   weeklyVars, statVars, contentVars, twinVars>>

InitRace ==
    /\ cb_recipients = <<>>
    /\ cb_size = 1
    /\ cb_result = <<>>
    /\ cb_done = FALSE
    /\ HarnessOff
    /\ env = [v \in {"SMTP_EMAIL", "SMTP_PASSWORD"} |-> "set"]
    /\ MailerOff
    /\ mpc = "off"
    /\ StoreEmpty
    /\ ApiOff
    /\ WeeklyOff

NextRace ==
    \/ \E w \in Workers, email \in 1..MaxRaceEmails : RaceCheck(w, "subscribe", email)
    \/ \E w \in Workers, email \in 1..MaxRaceEmails : RaceCheck(w, "unsubscribe", email)
    \/ \E w \in Workers : RaceCommit(w)

SpecRace == InitRace /\ [][NextRace]_vars

\* C26: after any sequence of subscribe and unsubscribe requests, interleaved
\* ones included, the subscribers table holds at most one row per email and
\* every row is active or unsubscribed.
C26_OneRowPerEmail ==
    /\ \A j, k \in 1..Len(subscribers) :
           subscribers[j].email = subscribers[k].email => j = k
    /\ \A k \in 1..Len(subscribers) :
           subscribers[k].status \in {"active", "unsubscribed"}

\* two subscribes of an unknown email interleaved, both are answered, and the
\* table holds one row for it
C26_Witness ==
    /\ \A w \in Workers : reqs[w].pc = "done" /\ reqs[w].op = "subscribe"
                          /\ reqs[w].seen = "none"
    /\ reqs[1].email = reqs[2].email
    /\ Len(subscribers) = 1

\* the request of worker p was checked while the request of q, for the same
\* operation and email, was between its check and its write, and both are
\* answered
Interleaved(p, q) ==
    /\ p # q
    /\ reqs[p].pc = "done"
    /\ reqs[q].pc = "done"
    /\ reqs[q].id # 0
    /\ reqs[p].rival = reqs[q].id
    /\ \/ reqs[p].op = "subscribe" /\ reqs[p].seen = "none"
       \/ reqs[p].op = "unsubscribe" /\ reqs[p].seen = "active"

\* C27: of two interleaved requests for the same email (two subscribes of an
\* unknown email, two unsubscribes of an active one) exactly one is answered
\* as a success and the other as the structured rejection (already subscribed
\* or already unsubscribed), not as a second success or a server error.
C27_OneWinnerOneRejection ==
    \A p, q \in Workers :
        Interleaved(p, q) =>
            \E win \in {p, q} :
                LET lose == Other(win) IN
                /\ reqs[win].success
                /\ ~reqs[lose].success
                /\ reqs[lose].status_code = 200
                /\ reqs[lose].message =
                       IF reqs[lose].op = "subscribe"
                       THEN ApiAlreadySubscribed ELSE ApiAlreadyUnsubscribed

\* a count whose total leaves out the unsubscribed rows
get_subscriber_countActiveTotal(subs) ==
    [active |-> Len(SelectSeq(subs, LAMBDA r : r.status = "active")),
     total |-> Len(SelectSeq(subs, LAMBDA r : r.status = "active")),
     unsubscribed |-> Len(SelectSeq(subs, LAMBDA r : r.status = "unsubscribed"))]

\* SubscriberDB.get_subscriber_count: three COUNT queries
get_subscriber_count(subs) ==
    [active |-> Len(SelectSeq(subs, LAMBDA r : r.status = "active")),
     total |-> Len(subs),
     unsubscribed |-> Len(SelectSeq(subs, LAMBDA r : r.status = "unsubscribed"))]

\* the number of rows of the table with the given status
RowsWith(subs, status) == Cardinality({k \in 1..Len(subs) : subs[k].status = status})

\* C28: get_subscriber_count always has active + unsubscribed = total and
\* active = len(get_active_subscribers); a successful subscribe raises active
\* by one, a successful unsubscribe lowers active by one and raises
\* unsubscribed by one.
C28_CountsConsistent ==
    [][LET before == get_subscriber_count(subscribers)
           after == get_subscriber_count(subscribers') IN
       /\ after.active + after.unsubscribed = after.total
       /\ after.active = Len(get_active_subscribers(subscribers'))
       /\ after.active = RowsWith(subscribers', "active")
       /\ after.total = Len(subscribers')
       /\ (SubscribeStep /\ response'.success) =>
              after.active = before.active + 1
       /\ (UnsubscribeStep /\ response'.success) =>
              /\ after.active = before.active - 1
              /\ after.unsubscribed = before.unsubscribed + 1
       /\ (nops' = nops + 1 /\ ~response'.success) => after = before]_vars

\* an unsubscribe has just succeeded and the table holds rows of both kinds
C28_Witness ==
    /\ request.op = "unsubscribe"
    /\ response.success
    /\ RowsWith(subscribers, "active") >= 1
    /\ RowsWith(subscribers, "unsubscribed") >= 2

(***************************************************************************)
(* A weekly run while the API serves requests: once the run has fetched    *)
(* its recipients, subscribe and unsubscribe requests of the API process   *)
(* may be handled between any two steps of the run.  What the API did      *)
(* before the fetch is in the table the run starts with: a few rows, or    *)
(* one row more than a full batch.                                         *)
(***************************************************************************)
MaxBusySubscribers == 2

MaxBusyEmails == 3

MaxBusyOps == 2

InitBusy ==
    /\ cb_recipients = <<>>
    /\ cb_size = 1
    /\ cb_result = <<>>
    /\ cb_done = FALSE
    /\ HarnessOff
    /\ env = [v \in {"SMTP_EMAIL", "SMTP_PASSWORD"} |-> "set"]
    /\ MailerOff
    /\ mpc = "off"
    /\ \E n \in (0..MaxBusySubscribers) \cup {max_batch_size + 1},
          per \in 1..(MaxUnsubPeriod + 1) :
           subscribers = InitialTable(n, IF per > MaxUnsubPeriod THEN n + 1 ELSE per)
    /\ send_logs = <<>>
    /\ ApiOff
    /\ wpc = "start"
    /\ db_session = "none"
    /\ w_recipients = <<>>
    /\ content = "none"
    /\ w_error = "none"
    /\ exit_status = -1
    /\ store_reads = 0
    /\ gen_calls = 0

\* the API handles a request while the run is between its fetch and its end
BusyRequest ==
    /\ store_reads >= 1
    /\ wpc \notin {"done", "exited"}
    /\ nops < MaxBusyOps
    /\ \E email \in 1..MaxBusyEmails : Subscribe(email) \/ Unsubscribe(email)

NextBusy == NextWeekly \/ BusyRequest

SpecBusy == InitBusy /\ [][NextBusy]_vars

\* the emails of the active rows of a table, in table order
ActiveNow(subs) ==
    LET rows == SelectSeq(subs, LAMBDA r : r.status = "active") IN
    [k \in 1..Len(rows) |-> rows[k].email]

\* C29: the list handed to the mailer is the list of the emails that were
\* active when the run fetched them, each once; requests handled after the
\* fetch do not change it; the SendLog row of the run has sent_count +
\* failures = the number of subscribers active at the fetch.
C29_RecipientsAreFetchSnapshot ==
    [][ /\ (store_reads' = store_reads + 1 /\ w_error' = "none") =>
               w_recipients' = ActiveNow(subscribers)
        /\ store_reads >= 1 => w_recipients' = w_recipients
        /\ \A j, k \in 1..Len(w_recipients') :
               w_recipients'[j] = w_recipients'[k] => j = k
        /\ mpc' \in {"loop", "connect", "starttls", "login", "sendmail", "quit",
                     "collect", "sleep", "returned"} =>
               /\ recipients' = w_recipients'
               /\ Concat(batches') = w_recipients'
        /\ mpc' = "returned" =>
               stats'.sent + stats'.failed = Len(w_recipients')
        /\ (Len(send_logs') = Len(send_logs) + 1 /\ wpc = "sending") =>
               send_logs'[Len(send_logs')].sent_count
                   + send_logs'[Len(send_logs')].failures = Len(w_recipients) ]_vars

\* a run has mailed its snapshot and written its row although the active list
\* changed after the fetch
C29_Witness ==
    /\ wpc = "done"
    /\ Len(send_logs) = 1
    /\ nops >= 1
    /\ w_recipients # <<>>
    /\ ActiveNow(subscribers) # w_recipients
    /\ send_logs[1].sent_count + send_logs[1].failures = Len(w_recipients)

(***************************************************************************)
(* SimpleNewsletterDB next to SubscriberDB: every call is made on both     *)
(* stores, one call after the other.                                       *)
(***************************************************************************)
\* simple_database.py line 66
SimpleMsgReactivated ==
    <<"R", "e", "a", "c", "t", "i", "v", "a", "t", "e", "d", " ", "s", "u",
      "b", "s", "c", "r", "i", "p", "t", "i", "o", "n">>

\* simple_database.py line 68
SimpleMsgAlreadySubscribed ==
    <<"E", "m", "a", "i", "l", " ", "a", "l", "r", "e", "a", "d", "y", " ",
      "s", "u", "b", "s", "c", "r", "i", "b", "e", "d">>

\* simple_database.py line 76
SimpleMsgSubscribed ==
    <<"S", "u", "c", "c", "e", "s", "s", "f", "u", "l", "l", "y", " ", "s",
      "u", "b", "s", "c", "r", "i", "b", "e", "d">>

\* simple_database.py line 79
SimpleMsgAlreadyExists ==
    <<"E", "m", "a", "i", "l", " ", "a", "l", "r", "e", "a", "d", "y", " ",
      "e", "x", "i", "s", "t", "s">>

\* simple_database.py line 97
SimpleMsgNotFound ==
    <<"E", "m", "a", "i", "l", " ", "n", "o", "t", " ", "f", "o", "u", "n",
      "d", " ", "i", "n", " ", "s", "u", "b", "s", "c", "r", "i", "b", "e",
      "r", " ", "l", "i", "s", "t">>

\* simple_database.py line 100
SimpleMsgAlreadyUnsubscribed ==
    <<"E", "m", "a", "i", "l", " ", "a", "l", "r", "e", "a", "d", "y", " ",
      "u", "n", "s", "u", "b", "s", "c", "r", "i", "b", "e", "d">>

\* simple_database.py line 108
SimpleMsgUnsubscribed ==
    <<"S", "u", "c", "c", "e", "s", "s", "f", "u", "l", "l", "y", " ", "u",
      "n", "s", "u", "b", "s", "c", "r", "i", "b", "e", "d">>

\* an add_subscriber that refuses an email that has a row, whatever its status
simple_add_subscriberNoReactivate(rows, email) ==
    LET existing == get_subscriber_by_email(rows, email) IN
    IF existing # 0
    THEN [rows |-> rows, success |-> FALSE, message |-> SimpleMsgAlreadySubscribed]
    ELSE [rows |-> insert_subscriber(rows, email).subscribers,
          success |-> TRUE, message |-> SimpleMsgSubscribed]

\* SimpleNewsletterDB.add_subscriber: the table afterwards and the result
simple_add_subscriber(rows, email) ==
    LET existing == get_subscriber_by_email(rows, email) IN
    IF existing # 0
    THEN IF rows[existing].status = "unsubscribed"
         THEN [rows |-> update_status(rows, email, "active").subscribers,
               success |-> TRUE, message |-> SimpleMsgReactivated]
         ELSE [rows |-> rows, success |-> FALSE, message |-> SimpleMsgAlreadySubscribed]
    ELSE LET r == insert_subscriber(rows, email) IN
         IF r.error.kind = "IntegrityError"
         THEN [rows |-> rows, success |-> FALSE, message |-> SimpleMsgAlreadyExists]
         ELSE [rows |-> r.subscribers, success |-> TRUE,
               message |-> SimpleMsgSubscribed]

\* SimpleNewsletterDB.unsubscribe_subscriber: the table afterwards and the result
simple_unsubscribe_subscriber(rows, email) ==
    LET existing == get_subscriber_by_email(rows, email) IN
    IF existing = 0
    THEN [rows |-> rows, success |-> FALSE, message |-> SimpleMsgNotFound]
    ELSE IF rows[existing].status = "unsubscribed"
         THEN [rows |-> rows, success |-> FALSE,
               message |-> SimpleMsgAlreadyUnsubscribed]
         ELSE [rows |-> update_status(rows, email, "unsubscribed").subscribers,
               success |-> TRUE, message |-> SimpleMsgUnsubscribed]

\* SimpleNewsletterDB.get_active_subscribers: the emails of the active rows
simple_get_active_subscribers(rows) ==
    LET active == SelectSeq(rows, LAMBDA r : r.status = "active") IN
    [k \in 1..Len(active) |-> active[k].email]

\* create_subscriber(email) and add_subscriber(email)
TwinSubscribe(email) ==
    /\ nops < MaxOps
    /\ LET r == create_subscriber(subscribers, email)
           t == simple_add_subscriber(simple_rows, email) IN
       /\ subscribers' = r.subscribers
       /\ db_error' = r.error
       /\ simple_rows' = t.rows
       /\ simple_result' = [op |-> "subscribe", success |-> t.success,
                            message |-> t.message]
    /\ request' = [op |-> "subscribe", email |-> email]
    /\ nops' = nops + 1
    /\ UNCHANGED <<cbVars, env, mailerVars, transportVars, send_logs, response,
                   weeklyVars, statVars, contentVars, raceVars>>

\* unsubscribe_subscriber(email) of both stores
TwinUnsubscribe(email) ==
    /\ nops < MaxOps
    /\ LET r == unsubscribe_subscriber(subscribers, email)
           t == simple_unsubscribe_subscriber(simple_rows, email) IN
       /\ subscribers' = r.subscribers
       /\ db_error' = r.error
       /\ simple_rows' = t.rows
       /\ simple_result' = [op |-> "unsubscribe", success |-> t.success,
                            message |-> t.message]
    /\ request' = [op |-> "unsubscribe", email |-> email]
    /\ nops' = nops + 1
    /\ UNCHANGED <<cbVars, env, mailerVars, transportVars, send_logs, response,
                   weeklyVars, statVars, contentVars, raceVars>>

NextTwin ==
    \/ \E email \in Emails : TwinSubscribe(email)
    \/ \E email \in Emails : TwinUnsubscribe(email)

SpecTwin == InitStore /\ [][NextTwin]_vars

\* the (email, status) pairs of a table
EmailStatus(rows) == {<<rows[k].email, rows[k].status>> : k \in 1..Len(rows)}

\* C30: on every sequence of subscribe and unsubscribe calls SimpleNewsletterDB
\* and SubscriberDB accept and reject the same calls, a rejection says
\* "already subscribed", "not found" or "already unsubscribed" in both, and
\* both end with the same (email, status) rows and the same active list.
C30_StoresAgree ==
    /\ EmailStatus(simple_rows) = EmailStatus(subscribers)
    /\ Len(simple_rows) = Len(subscribers)
    /\ simple_get_active_subscribers(simple_rows)
           = EmailsOf(get_active_subscribers(subscribers))
    /\ request.op # "none" =>
           /\ simple_result.success <=> db_error = <<>>
           /\ \A needle \in {NeedleAlreadySubscribed, NeedleNotFound,
                             NeedleAlreadyUnsubscribed} :
                  Contains(db_error, needle) <=>
                      (~simple_result.success /\ Contains(simple_result.message, needle))
           /\ ~simple_result.success =>
                  \E needle \in {NeedleAlreadySubscribed, NeedleNotFound,
                                 NeedleAlreadyUnsubscribed} :
                      Contains(simple_result.message, needle)

\* both stores have just turned an unsubscribed row active again
C30_Witness ==
    /\ request.op = "subscribe"
    /\ simple_result.message = SimpleMsgReactivated
    /\ db_error = <<>>
    /\ Len(subscribers) >= 2

====
